---- MODULE Spec2Model ----
(***************************************************************************)
(* Model of the IR code data model of the UFO-R11 SmartIR integration:     *)
(* IRCommand, IRCodeSet and IRCodeManager of                               *)
(* custom_components/ufo_r11_smartir/ir_codes.py, with the command         *)
(* constructions of parser.py and device_manager.py.                       *)
(*                                                                         *)
(* Python values are tagged records: [t |-> "str"], [t |-> "dict"], ...    *)
(* A code set is its instance __dict__: a function from attribute names to *)
(* values, because add_command / get_command / remove_command address a    *)
(* category through getattr(self, category, None).                         *)
(***************************************************************************)
EXTENDS Integers, Sequences, FiniteSets, TLC

VARIABLES
    code_sets,  \* IRCodeManager._code_sets: device id -> code set (the cache)
    storage,    \* the files <storage_path>/<device_id>.json: device id -> content
    clock,      \* dt_util.utcnow()
    learning_sessions,  \* DeviceManager._learning_sessions: device id -> session
    learn_calls,        \* async_learn_ir_command calls suspended at the publish
    timeout_tasks,      \* learning_timeout tasks created and not yet finished
    session_count,      \* number of sessions created so far
    mqtt_published,     \* the sessions whose learn command was published
    learned_sessions,   \* the sessions removed by async_handle_learned_code
    notifications,      \* the persistent notifications created
    gen_code_sets,      \* SmartIRGenerator._ir_manager._code_sets (a cache of its own)
    export_files,       \* the SmartIR files written: file name -> document
    loop,               \* the event loop: the library behind aiofiles, the file
                        \* operation each device is in, the other tasks run
    objects,            \* the IRCommand objects: the number of constructing calls
                        \* so far, and for each device the object its cached
                        \* code set holds at each (category, key)
    discovery,          \* UFODeviceDiscovery: the holder of _discovery_lock, the
                        \* discovery tasks and _discovered_devices
    last        \* the last call made and what it returned

\* the state of SmartIRGenerator and the files it writes
gen_vars == <<gen_code_sets, export_files>>

\* the state of the event loop
io_vars == <<loop>>

\* the identities of the command objects
obj_vars == <<objects>>

\* the state of the device discovery
disc_vars == <<discovery>>

\* the state of DeviceManager's learning
dm_vars == <<learning_sessions, learn_calls, timeout_tasks, session_count,
             mqtt_published, learned_sessions, notifications>>

\* The name of the last call comes first: two states are told apart by it
\* before the results of two different calls are compared.
vars == <<last.op, code_sets, storage, clock, dm_vars, gen_vars, io_vars, obj_vars, disc_vars, last>>

----------------------------------------------------------------------------
(* Bounds of the model *)

\* a code set holds at most MaxCommands commands in its six categories
MaxCommands == 2

----------------------------------------------------------------------------
(* Python values *)

NoneV == [t |-> "none"]
StrV(s) == [t |-> "str", s |-> s]
\* an ISO-8601 string made by utcnow().isoformat() at time n
TimeV(n) == [t |-> "time", n |-> n]
DictV(d) == [t |-> "dict", d |-> d]
CmdV(c) == [t |-> "cmd", c |-> c]
MethodV == [t |-> "method"]
\* the instance __dict__ itself, as getattr(self, "__dict__") returns it
InstDictV == [t |-> "instdict"]

\* the outcome of a call that can raise
Raised == [t |-> "raise"]
Ok(v) == [t |-> "ok", v |-> v]

EmptyDict == [k \in {} |-> NoneV]
\* d[key] = value on a Python dict
DictSet(d, key, value) == (key :> value) @@ d
\* del d[key]
DictDel(d, key) == [k \in (DOMAIN d) \ {key} |-> d[k]]
\* d.get(key, default)
DictGet(d, key, default) == IF key \in DOMAIN d THEN d[key] ELSE default

Range(f) == {f[x] : x \in DOMAIN f}

----------------------------------------------------------------------------
(* Base64, as base64.b64decode(code, validate=True) decides it *)

B64Alphabet ==
    { "A","B","C","D","E","F","G","H","I","J","K","L","M","N","O","P","Q",
      "R","S","T","U","V","W","X","Y","Z",
      "a","b","c","d","e","f","g","h","i","j","k","l","m","n","o","p","q",
      "r","s","t","u","v","w","x","y","z",
      "0","1","2","3","4","5","6","7","8","9","+","/" }

B64Pad == "="
B64Error == -1

\* the number of leading alphabet characters of code
RECURSIVE DataLen(_)
DataLen(code) ==
    IF code = <<>> \/ Head(code) \notin B64Alphabet THEN 0
    ELSE 1 + DataLen(Tail(code))

\* The length of the decoded bytes, or B64Error where b64decode raises.
\* validate=True first requires the shape [A-Za-z0-9+/]*={0,2}; the decoder
\* then wants the data characters to fill whole quads, a last quad of two or
\* three characters being completed by padding.
b64decode(code) ==
    LET n == DataLen(code)
        rest == SubSeq(code, n + 1, Len(code))
        p == Len(rest)
        q == n % 4
        full == 3 * (n \div 4)
    IN  IF \E i \in 1..p : rest[i] # B64Pad THEN B64Error
        ELSE IF p > 2 THEN B64Error
        ELSE IF q = 0 THEN full
        ELSE IF q = 1 THEN B64Error
        ELSE IF q = 2 THEN (IF p = 2 THEN full + 1 ELSE B64Error)
        ELSE (IF p >= 1 THEN full + 2 ELSE B64Error)

\* variant of validate_base64 without the length test of line 59: a code that
\* decodes to zero bytes counts as valid
validate_base64_any_length(code) ==
    b64decode(code) # B64Error

\* IRCommand._validate_base64: len(decoded) > 0, False when decoding raises
validate_base64(code) ==
    LET decoded == b64decode(code)
    IN  IF decoded = B64Error THEN FALSE ELSE decoded > 0

----------------------------------------------------------------------------
(* IRCommand *)

\* timestamp=None
NoTime == -1
\* raw_data=None
NoRaw == "None"

\* variant of the constructor without line 52: the flag passed in is kept
IRCommand_keeping_flag(name, code, raw_data, timestamp, validated, now) ==
    [ name |-> name,
      code |-> code,
      raw_data |-> raw_data,
      timestamp |-> IF timestamp = NoTime THEN now ELSE timestamp,
      validated |-> validated ]

\* the dataclass constructor followed by __post_init__ at time now
IRCommand(name, code, raw_data, timestamp, validated, now) ==
    [ name |-> name,
      code |-> code,
      raw_data |-> raw_data,
      timestamp |-> IF timestamp = NoTime THEN now ELSE timestamp,
      validated |-> validate_base64(code) ]

IRCommand_to_dict(c) ==
    [ name |-> c.name,
      code |-> c.code,
      raw_data |-> c.raw_data,
      timestamp |-> c.timestamp,
      validated |-> c.validated ]

\* IRCommand.from_dict: data["name"] and data["code"] raise KeyError when absent
IRCommand_from_dict(data, now) ==
    IF ~ ({"name", "code"} \subseteq DOMAIN data) THEN Raised
    ELSE Ok(IRCommand(data["name"], data["code"],
                      DictGet(data, "raw_data", NoRaw),
                      DictGet(data, "timestamp", NoTime),
                      DictGet(data, "validated", FALSE),
                      now))

----------------------------------------------------------------------------
(* IRCodeSet *)

\* the six category fields, in the order get_all_commands lists them
CategoryOrder == <<"power", "temperature", "mode", "fan_speed", "swing", "custom">>
SixCategories == {CategoryOrder[i] : i \in DOMAIN CategoryOrder}

\* fields declared with a plain default are also class attributes
ClassDefaults ==
    [ device_type |-> StrV("air_conditioner"),
      manufacturer |-> StrV("MOES"),
      model |-> StrV("UFO-R11"),
      created_at |-> NoneV,
      updated_at |-> NoneV ]

MethodNames ==
    { "add_command", "get_command", "remove_command", "get_all_commands",
      "get_command_count", "validate_commands", "to_dict", "from_dict" }

\* the dataclass constructor followed by __post_init__ at time now
IRCodeSet(device_id, device_name, device_type, manufacturer, model, created_at, now) ==
    [ device_id |-> device_id,
      device_name |-> device_name,
      device_type |-> device_type,
      manufacturer |-> manufacturer,
      model |-> model,
      power |-> DictV(EmptyDict),
      temperature |-> DictV(EmptyDict),
      mode |-> DictV(EmptyDict),
      fan_speed |-> DictV(EmptyDict),
      swing |-> DictV(EmptyDict),
      custom |-> DictV(EmptyDict),
      created_at |-> IF created_at = NoneV THEN TimeV(now) ELSE created_at,
      updated_at |-> TimeV(now) ]

\* getattr(self, name, None)
getattr(cs, name) ==
    IF name = "__dict__" THEN InstDictV
    ELSE IF name \in DOMAIN cs THEN cs[name]
    ELSE IF name \in DOMAIN ClassDefaults THEN ClassDefaults[name]
    ELSE IF name \in MethodNames THEN MethodV
    ELSE NoneV

\* self.name: AttributeError when neither the instance nor the class has it
attr(cs, name) ==
    IF name \in DOMAIN cs THEN Ok(cs[name])
    ELSE IF name \in DOMAIN ClassDefaults THEN Ok(ClassDefaults[name])
    ELSE Raised

\* self.name = value
setattr(cs, name, value) == (name :> value) @@ cs

\* del self.__dict__[name]
delattr(cs, name) == [a \in (DOMAIN cs) \ {name} |-> cs[a]]

\* variant of add_command that keeps the command a key already has
add_command_keeping_first(cs, category, key, command, now) ==
    LET category_dict == getattr(cs, category)
    IN  IF category_dict = NoneV THEN [ret |-> FALSE, cs |-> cs]
        ELSE IF category_dict.t = "dict" THEN
            [ ret |-> TRUE,
              cs |-> setattr(setattr(cs, category,
                                     DictV(IF key \in DOMAIN category_dict.d
                                           THEN category_dict.d
                                           ELSE DictSet(category_dict.d, key, command))),
                             "updated_at", TimeV(now)) ]
        ELSE IF category_dict.t = "instdict" THEN
            [ ret |-> TRUE,
              cs |-> setattr(setattr(cs, key, CmdV(command)),
                             "updated_at", TimeV(now)) ]
        ELSE [ret |-> FALSE, cs |-> cs]

\* add_command: [ret, cs]. Item assignment on a str, an IRCommand or a
\* method raises TypeError, which the except clause turns into False.
add_command(cs, category, key, command, now) ==
    LET category_dict == getattr(cs, category)
    IN  IF category_dict = NoneV THEN [ret |-> FALSE, cs |-> cs]
        ELSE IF category_dict.t = "dict" THEN
            [ ret |-> TRUE,
              cs |-> setattr(setattr(cs, category,
                                     DictV(DictSet(category_dict.d, key, command))),
                             "updated_at", TimeV(now)) ]
        ELSE IF category_dict.t = "instdict" THEN
            [ ret |-> TRUE,
              cs |-> setattr(setattr(cs, key, CmdV(command)),
                             "updated_at", TimeV(now)) ]
        ELSE [ret |-> FALSE, cs |-> cs]

\* get_command: .get on a str, an IRCommand or a method raises
\* AttributeError, which the except clause turns into None.
get_command(cs, category, key) ==
    LET category_dict == getattr(cs, category)
    IN  IF category_dict = NoneV THEN NoneV
        ELSE IF category_dict.t = "dict" THEN
            (IF key \in DOMAIN category_dict.d
                THEN CmdV(category_dict.d[key]) ELSE NoneV)
        ELSE IF category_dict.t = "instdict" THEN DictGet(cs, key, NoneV)
        ELSE NoneV

\* remove_command: [ret, cs]. On a str "key not in" is a substring test and
\* del raises; on an IRCommand or a method the test itself raises.
remove_command(cs, category, key, now) ==
    LET category_dict == getattr(cs, category)
    IN  IF category_dict = NoneV THEN [ret |-> FALSE, cs |-> cs]
        ELSE IF category_dict.t = "dict" THEN
            (IF key \notin DOMAIN category_dict.d THEN [ret |-> FALSE, cs |-> cs]
             ELSE [ ret |-> TRUE,
                    cs |-> setattr(setattr(cs, category,
                                           DictV(DictDel(category_dict.d, key))),
                                   "updated_at", TimeV(now)) ])
        ELSE IF category_dict.t = "instdict" THEN
            (IF key \notin DOMAIN cs THEN [ret |-> FALSE, cs |-> cs]
             ELSE [ ret |-> TRUE,
                    cs |-> setattr(delattr(cs, key), "updated_at", TimeV(now)) ])
        ELSE [ret |-> FALSE, cs |-> cs]

\* get_all_commands: the six fields as they are; self.<category> raises
\* AttributeError when the field was deleted
get_all_commands(cs) ==
    IF ~ (SixCategories \subseteq DOMAIN cs) THEN Raised
    ELSE Ok([c \in SixCategories |-> cs[c]])

RECURSIVE SumLen(_, _)
SumLen(all, i) ==
    IF i > Len(CategoryOrder) THEN 0
    ELSE Cardinality(DOMAIN all[CategoryOrder[i]].d) + SumLen(all, i + 1)

\* get_command_count: len() of an IRCommand raises TypeError
get_command_count(cs) ==
    LET all == get_all_commands(cs)
    IN  IF all = Raised THEN Raised
        ELSE IF \E c \in SixCategories : all.v[c].t # "dict" THEN Raised
        ELSE Ok(SumLen(all.v, 1))

\* the keys of the model in a fixed order (a dict's own order is the order of
\* insertion, which no result below depends on)
KeyOrder == <<"on", "off", "cool", "auto", "sleep", "20", "24", "power", "device_id">>

KeysOf(d) == SelectSeq(KeyOrder, LAMBDA k : k \in DOMAIN d)

\* the command identifier f"{category}.{key}"
CommandId(category, key) == <<category, key>>

\* the identifiers of the commands of categories i.. whose flag is `flag`
RECURSIVE IdsFrom(_, _, _)
IdsFrom(all, i, flag) ==
    IF i > Len(CategoryOrder) THEN <<>>
    ELSE LET category == CategoryOrder[i]
             commands == all[category].d
             keys == SelectSeq(KeysOf(commands),
                               LAMBDA k : commands[k].validated = flag)
         IN  [j \in 1..Len(keys) |-> CommandId(category, keys[j])]
             \o IdsFrom(all, i + 1, flag)

EssentialCommands ==
    << <<"power", "on">>, <<"power", "off">>, <<"mode", "cool">>, <<"fan_speed", "auto">> >>

\* validate_commands: .items() on an IRCommand raises AttributeError
validate_commands(cs) ==
    LET all == get_all_commands(cs)
    IN  IF all = Raised THEN Raised
        ELSE IF \E c \in SixCategories : all.v[c].t # "dict" THEN Raised
        ELSE LET absent == SelectSeq(EssentialCommands,
                               LAMBDA e : get_command(cs, e[1], e[2]) = NoneV)
             IN  Ok([ valid |-> IdsFrom(all.v, 1, TRUE),
                      invalid |-> IdsFrom(all.v, 1, FALSE),
                      missing |-> [j \in 1..Len(absent) |->
                                      CommandId(absent[j][1], absent[j][2])] ])

IdentityFields == {"device_id", "device_name", "device_type", "manufacturer", "model"}

\* IRCodeSet.to_dict: the document, or Raised when a field is gone or a
\* category is no dict
IRCodeSet_to_dict(cs) ==
    IF \E f \in IdentityFields \cup {"created_at", "updated_at"} : attr(cs, f) = Raised
        THEN Raised
    ELSE IF \E c \in SixCategories : attr(cs, c) = Raised \/ cs[c].t # "dict"
        THEN Raised
    ELSE Ok([ f \in IdentityFields \cup SixCategories \cup {"created_at", "updated_at"} |->
                IF f \in SixCategories
                    THEN [k \in DOMAIN cs[f].d |-> IRCommand_to_dict(cs[f].d[k])]
                    ELSE attr(cs, f).v ])

\* IRCodeSet.from_dict at time now: data["device_id"] and data["device_name"]
\* raise KeyError when absent, and so does a command without name or code
IRCodeSet_from_dict(data, now) ==
    IF ~ ({"device_id", "device_name"} \subseteq DOMAIN data) THEN Raised
    ELSE IF \E c \in SixCategories \cap DOMAIN data :
                \E k \in DOMAIN data[c] : IRCommand_from_dict(data[c][k], now) = Raised
        THEN Raised
    ELSE LET code_set ==
                 IRCodeSet(data["device_id"], data["device_name"],
                           DictGet(data, "device_type", StrV("air_conditioner")),
                           DictGet(data, "manufacturer", StrV("MOES")),
                           DictGet(data, "model", StrV("UFO-R11")),
                           DictGet(data, "created_at", NoneV),
                           now)
             loaded ==
                 [ a \in DOMAIN code_set |->
                     IF a \in SixCategories \cap DOMAIN data
                         THEN DictV([k \in DOMAIN data[a] |->
                                        IRCommand_from_dict(data[a][k], now).v])
                         ELSE code_set[a] ]
         IN  Ok(setattr(loaded, "updated_at", DictGet(data, "updated_at", NoneV)))

----------------------------------------------------------------------------
(* IRCodeManager: the cache and the storage files *)

\* what <storage_path>/<device_id>.json holds
Absent == [t |-> "absent"]
\* a file truncated by open(..., 'w') and never written
EmptyFile == [t |-> "empty"]
\* text that is no JSON document (a partial write, a damaged file)
Garbage == [t |-> "garbage"]
JsonFile(doc) == [t |-> "json", v |-> doc]

\* json.dumps: an IRCommand among the values is not JSON serializable
json_dumps(doc) ==
    IF \E f \in IdentityFields \cup {"created_at", "updated_at"} : doc[f].t = "cmd"
        THEN Raised
    ELSE Ok(JsonFile(doc))

\* json.loads: raises on text that is no JSON document
json_loads(content) ==
    IF content.t = "json" THEN Ok(content.v) ELSE Raised

\* variant of async_load_device without line 289: the loaded code set is
\* returned but not cached
async_load_device_uncached(cache, store, device_id, now) ==
    IF device_id \in DOMAIN cache
        THEN [ret |-> cache[device_id], code_sets |-> cache]
    ELSE IF store[device_id] = Absent
        THEN [ret |-> NoneV, code_sets |-> cache]
    ELSE LET data == json_loads(store[device_id])
             code_set == IF data = Raised THEN Raised
                         ELSE IRCodeSet_from_dict(data.v, now)
         IN  IF code_set = Raised THEN [ret |-> NoneV, code_sets |-> cache]
             ELSE [ret |-> code_set.v, code_sets |-> cache]

\* async_load_device at time now: [ret, code_sets]
async_load_device(cache, store, device_id, now) ==
    IF device_id \in DOMAIN cache
        THEN [ret |-> cache[device_id], code_sets |-> cache]
    ELSE IF store[device_id] = Absent
        THEN [ret |-> NoneV, code_sets |-> cache]
    ELSE LET data == json_loads(store[device_id])
             code_set == IF data = Raised THEN Raised
                         ELSE IRCodeSet_from_dict(data.v, now)
         IN  IF code_set = Raised THEN [ret |-> NoneV, code_sets |-> cache]
             ELSE [ ret |-> code_set.v,
                    code_sets |-> DictSet(cache, device_id, code_set.v) ]

\* how the file system answers a save
IoOutcomes == {"ok", "open_fails", "write_fails_empty", "write_fails_partial"}

\* variant of async_save_device without the except clause of lines 317-319: a
\* write that fails part way is reported as a success
async_save_device_unguarded(cache, store, device_id, io) ==
    IF device_id \notin DOMAIN cache THEN [ret |-> FALSE, storage |-> store]
    ELSE IF io = "open_fails" THEN [ret |-> FALSE, storage |-> store]
    ELSE LET data == IRCodeSet_to_dict(cache[device_id])
             content == IF data = Raised THEN Raised ELSE json_dumps(data.v)
         IN  IF content = Raised \/ io = "write_fails_empty"
                 THEN [ret |-> FALSE, storage |-> DictSet(store, device_id, EmptyFile)]
             ELSE IF io = "write_fails_partial"
                 THEN [ret |-> TRUE, storage |-> DictSet(store, device_id, Garbage)]
             ELSE [ret |-> TRUE, storage |-> DictSet(store, device_id, content.v)]

\* async_save_device: [ret, storage]. open(..., 'w') truncates the file before
\* the document is serialized inside the with block.
async_save_device(cache, store, device_id, io) ==
    IF device_id \notin DOMAIN cache THEN [ret |-> FALSE, storage |-> store]
    ELSE IF io = "open_fails" THEN [ret |-> FALSE, storage |-> store]
    ELSE LET data == IRCodeSet_to_dict(cache[device_id])
             content == IF data = Raised THEN Raised ELSE json_dumps(data.v)
         IN  IF content = Raised \/ io = "write_fails_empty"
                 THEN [ret |-> FALSE, storage |-> DictSet(store, device_id, EmptyFile)]
             ELSE IF io = "write_fails_partial"
                 THEN [ret |-> FALSE, storage |-> DictSet(store, device_id, Garbage)]
             ELSE [ret |-> TRUE, storage |-> DictSet(store, device_id, content.v)]

\* get_device_codes
get_device_codes(cache, device_id) == DictGet(cache, device_id, NoneV)

\* variant of add_device_codes that keeps a code set already cached under the id
add_device_codes_keeping_first(cache, code_set) ==
    LET device_id == attr(code_set, "device_id")
    IN  IF device_id = Raised \/ device_id.v.t # "str"
            THEN [ret |-> FALSE, code_sets |-> cache]
        ELSE IF device_id.v.s \in DOMAIN cache
            THEN [ret |-> TRUE, code_sets |-> cache]
        ELSE [ret |-> TRUE, code_sets |-> DictSet(cache, device_id.v.s, code_set)]

\* add_device_codes: [ret, code_sets]. A device_id that is gone or is an
\* IRCommand (unhashable) raises inside the try.
add_device_codes(cache, code_set) ==
    LET device_id == attr(code_set, "device_id")
    IN  IF device_id = Raised \/ device_id.v.t # "str"
            THEN [ret |-> FALSE, code_sets |-> cache]
        ELSE [ret |-> TRUE, code_sets |-> DictSet(cache, device_id.v.s, code_set)]

\* remove_device_codes: [ret, code_sets, storage]; unlink may fail
remove_device_codes(cache, store, device_id, unlink_ok) ==
    IF device_id \in DOMAIN cache
        THEN [ ret |-> TRUE,
               code_sets |-> DictDel(cache, device_id),
               storage |-> IF store[device_id] # Absent /\ unlink_ok
                               THEN DictSet(store, device_id, Absent)
                               ELSE store ]
    ELSE [ret |-> FALSE, code_sets |-> cache, storage |-> store]

\* get_device_summary: the counts of the summary, None without a code set
get_device_summary(cache, device_id) ==
    IF device_id \notin DOMAIN cache THEN Ok(NoneV)
    ELSE LET code_set == cache[device_id]
             validation == validate_commands(code_set)
             total == get_command_count(code_set)
         IN  IF validation = Raised \/ total = Raised THEN Raised
             ELSE Ok([ t |-> "summary",
                       total_commands |-> total.v,
                       valid_commands |-> Len(validation.v.valid),
                       invalid_commands |-> Len(validation.v.invalid),
                       missing_commands |-> Len(validation.v.missing) ])

----------------------------------------------------------------------------
(* The inputs of the model *)

Devices == {"dev1", "dev2"}

\* the times utcnow() returns
Times == {0, 1}

\* "QUJD" and "REVG" decode to three bytes; "QUJ" has no padding
CodeABC == <<"Q", "U", "J", "D">>
CodeDEF == <<"R", "E", "V", "G">>
CodeShort == <<"Q", "U", "J">>
\* "QQ==" decodes to one byte, "" and "==" to none, "QU!=" is no Base64
CodePadded == <<"Q", "Q", "=", "=">>
CodeEmpty == <<>>
CodeOnlyPad == <<"=", "=">>
CodeBang == <<"Q", "U", "!", "=">>

\* IRCommand(name=..., code=..., raw_data=...) as parser.py (a line of the
\* file), async_handle_learned_code (a learned code) and async_import_codes
\* (a key -> code entry) construct it: no timestamp, no flag
NewCommand(name, code, raw_data, now) ==
    IRCommand(name, code, raw_data, NoTime, FALSE, now)

\* a key -> {name, code, ...} entry of an import document, whose stored flag
\* disagrees with its code
StaleCommandDoc ==
    [name |-> "doc", code |-> CodeShort, timestamp |-> 0, validated |-> TRUE]

\* the commands the callers of add_command construct at time now
NewCommands(now) ==
    { NewCommand("ON", CodeABC, "line", now),
      NewCommand("learned", CodeShort, "learned", now),
      IRCommand_from_dict(StaleCommandDoc, now).v }

\* (category, key) pairs on the six categories
GoodSlots ==
    { <<"power", "on">>, <<"power", "off">>, <<"mode", "cool">>,
      <<"custom", "power">> }

\* the pairs the model reads and removes
ReadSlots ==
    { <<"power", "on">>, <<"mode", "cool">>, <<"custom", "power">>,
      <<"device_id", "on">>, <<"to_dict", "on">>, <<"bogus", "on">>,
      <<"__dict__", "power">>, <<"__dict__", "device_id">> }

RemoveSlots ==
    { <<"power", "on">>, <<"mode", "cool">>, <<"custom", "power">>,
      <<"device_id", "on">>, <<"bogus", "on">>, <<"__dict__", "power">> }

\* (category, key) pairs whose category is none of the six: another attribute
\* of the code set, a method, no attribute at all, and the instance __dict__
BadAddSlots ==
    { <<"device_id", "on">>, <<"to_dict", "on">>, <<"bogus", "on">>,
      <<"__dict__", "power">>, <<"__dict__", "created_at">> }

NewCodeSet(device_id, now) ==
    IRCodeSet(StrV(device_id), StrV("Device"), StrV("air_conditioner"),
              StrV("MOES"), StrV("UFO-R11"), NoneV, now)

\* the code sets handed to add_device_codes: an empty one (a device set up for
\* import or learning) and one holding a parsed command (a Point-codes device)
NewCodeSets(device_id, now) ==
    IF device_id = "dev1"
        THEN { NewCodeSet(device_id, now),
               add_command(NewCodeSet(device_id, now), "power", "off",
                           NewCommand("OFF", CodeABC, "line", now), now).cs }
        ELSE { NewCodeSet(device_id, now) }

----------------------------------------------------------------------------
(* The calls *)

Call(op, device_id, category, key, arg, ret) ==
    [op |-> op, dev |-> device_id, category |-> category, key |-> key,
     arg |-> arg, ret |-> ret]

\* the commands held by the categories of cs that are dicts
CommandTotal(cs) ==
    Cardinality({s \in SixCategories \X Range(KeyOrder) :
                    /\ s[1] \in DOMAIN cs
                    /\ cs[s[1]].t = "dict"
                    /\ s[2] \in DOMAIN cs[s[1]].d})

Tick ==
    /\ clock + 1 \in Times
    /\ clock' = clock + 1
    /\ UNCHANGED <<code_sets, storage, last>>
    /\ UNCHANGED dm_vars
    /\ UNCHANGED gen_vars
    /\ UNCHANGED io_vars
    /\ UNCHANGED obj_vars
    /\ UNCHANGED disc_vars

\* code_set.add_command(category, key, command) on the cached code set
AddCommand(device_id, category, key, command) ==
    /\ device_id \in DOMAIN code_sets
    /\ \/ CommandTotal(code_sets[device_id]) < MaxCommands
       \/ category \notin SixCategories
       \/ get_command(code_sets[device_id], category, key) # NoneV
    /\ LET r == add_command(code_sets[device_id], category, key, command, clock)
       IN  /\ code_sets' = [code_sets EXCEPT ![device_id] = r.cs]
           /\ last' = Call("add_command", device_id, category, key, CmdV(command), r.ret)
    /\ UNCHANGED <<storage, clock>>
    /\ UNCHANGED dm_vars
    /\ UNCHANGED gen_vars
    /\ UNCHANGED io_vars
    /\ UNCHANGED obj_vars
    /\ UNCHANGED disc_vars

\* code_set.get_command(category, key)
GetCommand(device_id, category, key) ==
    /\ device_id \in DOMAIN code_sets
    /\ last' = Call("get_command", device_id, category, key, NoneV,
                    get_command(code_sets[device_id], category, key))
    /\ UNCHANGED <<code_sets, storage, clock>>
    /\ UNCHANGED dm_vars
    /\ UNCHANGED gen_vars
    /\ UNCHANGED io_vars
    /\ UNCHANGED obj_vars
    /\ UNCHANGED disc_vars

\* code_set.remove_command(category, key)
RemoveCommand(device_id, category, key) ==
    /\ device_id \in DOMAIN code_sets
    /\ LET r == remove_command(code_sets[device_id], category, key, clock)
       IN  /\ code_sets' = [code_sets EXCEPT ![device_id] = r.cs]
           /\ last' = Call("remove_command", device_id, category, key, NoneV, r.ret)
    /\ UNCHANGED <<storage, clock>>
    /\ UNCHANGED dm_vars
    /\ UNCHANGED gen_vars
    /\ UNCHANGED io_vars
    /\ UNCHANGED obj_vars
    /\ UNCHANGED disc_vars

\* code_set.get_command_count()
GetCommandCount(device_id) ==
    /\ device_id \in DOMAIN code_sets
    /\ last' = Call("get_command_count", device_id, "", "", NoneV,
                    get_command_count(code_sets[device_id]))
    /\ UNCHANGED <<code_sets, storage, clock>>
    /\ UNCHANGED dm_vars
    /\ UNCHANGED gen_vars
    /\ UNCHANGED io_vars
    /\ UNCHANGED obj_vars
    /\ UNCHANGED disc_vars

\* code_set.validate_commands()
ValidateCommands(device_id) ==
    /\ device_id \in DOMAIN code_sets
    /\ last' = Call("validate_commands", device_id, "", "", NoneV,
                    validate_commands(code_sets[device_id]))
    /\ UNCHANGED <<code_sets, storage, clock>>
    /\ UNCHANGED dm_vars
    /\ UNCHANGED gen_vars
    /\ UNCHANGED io_vars
    /\ UNCHANGED obj_vars
    /\ UNCHANGED disc_vars

\* code_set = IRCodeSet.from_dict(code_set.to_dict())
RoundTrip(device_id) ==
    /\ device_id \in DOMAIN code_sets
    /\ LET data == IRCodeSet_to_dict(code_sets[device_id])
           r == IF data = Raised THEN Raised ELSE IRCodeSet_from_dict(data.v, clock)
       IN  /\ code_sets' = IF r = Raised THEN code_sets
                           ELSE [code_sets EXCEPT ![device_id] = r.v]
           /\ last' = Call("round_trip", device_id, "", "", NoneV, r)
    /\ UNCHANGED <<storage, clock>>
    /\ UNCHANGED dm_vars
    /\ UNCHANGED gen_vars
    /\ UNCHANGED io_vars
    /\ UNCHANGED obj_vars
    /\ UNCHANGED disc_vars

\* manager.async_load_device(device_id)
LoadDevice(device_id) ==
    /\ LET r == async_load_device(code_sets, storage, device_id, clock)
       IN  /\ code_sets' = r.code_sets
           /\ last' = Call("async_load_device", device_id, "", "", NoneV, r.ret)
    /\ UNCHANGED <<storage, clock>>
    /\ UNCHANGED dm_vars
    /\ UNCHANGED gen_vars
    /\ UNCHANGED io_vars
    /\ UNCHANGED obj_vars
    /\ UNCHANGED disc_vars

\* manager.async_save_device(device_id)
SaveDevice(device_id, io) ==
    /\ LET r == async_save_device(code_sets, storage, device_id, io)
       IN  /\ storage' = r.storage
           /\ last' = Call("async_save_device", device_id, "", "", StrV(io), r.ret)
    /\ UNCHANGED <<code_sets, clock>>
    /\ UNCHANGED dm_vars
    /\ UNCHANGED gen_vars
    /\ UNCHANGED io_vars
    /\ UNCHANGED obj_vars
    /\ UNCHANGED disc_vars

\* manager.get_device_codes(device_id)
GetDeviceCodes(device_id) ==
    /\ last' = Call("get_device_codes", device_id, "", "", NoneV,
                    get_device_codes(code_sets, device_id))
    /\ UNCHANGED <<code_sets, storage, clock>>
    /\ UNCHANGED dm_vars
    /\ UNCHANGED gen_vars
    /\ UNCHANGED io_vars
    /\ UNCHANGED obj_vars
    /\ UNCHANGED disc_vars

\* manager.add_device_codes(code_set), code_set a code set of device_id
AddDeviceCodes(device_id, code_set) ==
    /\ LET r == add_device_codes(code_sets, code_set)
       IN  /\ code_sets' = r.code_sets
           /\ last' = Call("add_device_codes", device_id, "", "", code_set, r.ret)
    /\ UNCHANGED <<storage, clock>>
    /\ UNCHANGED dm_vars
    /\ UNCHANGED gen_vars
    /\ UNCHANGED io_vars
    /\ UNCHANGED obj_vars
    /\ UNCHANGED disc_vars

\* manager.remove_device_codes(device_id)
RemoveDeviceCodes(device_id, unlink_ok) ==
    /\ LET r == remove_device_codes(code_sets, storage, device_id, unlink_ok)
       IN  /\ code_sets' = r.code_sets
           /\ storage' = r.storage
           /\ last' = Call("remove_device_codes", device_id, "", "", NoneV, r.ret)
    /\ UNCHANGED clock
    /\ UNCHANGED dm_vars
    /\ UNCHANGED gen_vars
    /\ UNCHANGED io_vars
    /\ UNCHANGED obj_vars
    /\ UNCHANGED disc_vars

\* manager.get_device_summary(device_id)
GetDeviceSummary(device_id) ==
    /\ last' = Call("get_device_summary", device_id, "", "", NoneV,
                    get_device_summary(code_sets, device_id))
    /\ UNCHANGED <<code_sets, storage, clock>>
    /\ UNCHANGED dm_vars
    /\ UNCHANGED gen_vars
    /\ UNCHANGED io_vars
    /\ UNCHANGED obj_vars
    /\ UNCHANGED disc_vars

----------------------------------------------------------------------------
(* SpecCodeSet: one code set and every call on it *)

\* DeviceManager.__init__: no learning session, nothing sent
NoLearning ==
    /\ learning_sessions = EmptyDict
    /\ learn_calls = {}
    /\ timeout_tasks = {}
    /\ session_count = 0
    /\ mqtt_published = {}
    /\ learned_sessions = {}
    /\ notifications = {}

\* SmartIRGenerator.__init__: a manager of its own with nothing cached; no
\* file exported yet
NoGenerator ==
    /\ gen_code_sets = EmptyDict
    /\ export_files = EmptyDict

\* the loop of an installation with the aiofiles package, nothing in progress
NoFileIo ==
    loop = [ aiofiles |-> "package",
             tasks |-> [d \in Devices |-> [op |-> "none", at |-> "idle"]],
             others |-> 0 ]

\* no command object constructed yet
NoObjects ==
    objects = [next |-> 1, held |-> [d \in {"dev1", "dev2"} |-> [k \in {} |-> 0]]]

\* the number of discovery tasks
MaxTasks == 3

DiscoveryTasks == 1..MaxTasks

\* UFODeviceDiscovery.__init__: the lock is free (holder 0), no task was
\* created, nothing is discovered
NoDiscovery ==
    discovery = [ lock |-> 0,
                  tasks |-> [t \in DiscoveryTasks |->
                                [kind |-> "none", at |-> "idle", devices |-> <<>>, i |-> 1]],
                  discovered |-> {} ]

NoCall == Call("init", "", "", "", NoneV, NoneV)

InitCodeSet ==
    /\ code_sets = ("dev1" :> NewCodeSet("dev1", 0))
    /\ storage = [d \in Devices |-> Absent]
    /\ clock = 0
    /\ NoLearning
    /\ last = NoCall
    /\ NoGenerator
    /\ NoFileIo
    /\ NoObjects
    /\ NoDiscovery

NextCodeSet ==
    \/ Tick
    \/ \E s \in GoodSlots : \E c \in NewCommands(clock) :
          AddCommand("dev1", s[1], s[2], c)
    \/ \E s \in BadAddSlots :
          AddCommand("dev1", s[1], s[2], NewCommand("ON", CodeABC, "line", clock))
    \/ \E s \in ReadSlots : GetCommand("dev1", s[1], s[2])
    \/ \E s \in RemoveSlots : RemoveCommand("dev1", s[1], s[2])
    \/ GetCommandCount("dev1")
    \/ ValidateCommands("dev1")
    \/ RoundTrip("dev1")
    \/ GetDeviceSummary("dev1")

SpecCodeSet == InitCodeSet /\ [][NextCodeSet]_vars

----------------------------------------------------------------------------
(* Spec: the manager, its cache and the storage files of two devices *)

\* a document as async_save_device wrote it
StoredDoc(device_id) ==
    IRCodeSet_to_dict(
        add_command(NewCodeSet(device_id, 0), "power", "on",
                    NewCommand("ON", CodeABC, "line", 0), 0).cs).v

\* a document whose stored flags disagree with its codes
StaleDoc(device_id) ==
    [ StoredDoc(device_id) EXCEPT
        !["power"] =
            ( "on" :> [name |-> "ON", code |-> CodeShort, raw_data |-> "line",
                       timestamp |-> 0, validated |-> TRUE]
              @@ "off" :> [name |-> "OFF", code |-> CodePadded, raw_data |-> "line",
                           timestamp |-> 0, validated |-> FALSE] ),
        !["mode"] =
            ( "cool" :> [name |-> "Mode cool", code |-> CodeOnlyPad, raw_data |-> "line",
                         timestamp |-> 0, validated |-> TRUE] ),
        !["fan_speed"] =
            ( "auto" :> [name |-> "Fan speed automatic", code |-> CodeBang,
                         raw_data |-> "line", timestamp |-> 0, validated |-> TRUE] ),
        !["swing"] =
            ( "on" :> [name |-> "Swing on", code |-> CodeEmpty, raw_data |-> "line",
                       timestamp |-> 0, validated |-> TRUE] ) ]

\* a JSON document that is no code set: a command without its code
BrokenDoc(device_id) ==
    [ StoredDoc(device_id) EXCEPT
        !["power"] = ("on" :> [name |-> "ON", validated |-> TRUE]) ]

\* what the storage directory may hold when the manager is created
InitFiles(device_id) ==
    IF device_id = "dev1"
        THEN { Absent, Garbage, JsonFile(StoredDoc(device_id)),
               JsonFile(StaleDoc(device_id)), JsonFile(BrokenDoc(device_id)) }
        ELSE { Absent, JsonFile(StoredDoc(device_id)) }

MgrCommands(now) ==
    { NewCommand("learned", CodeDEF, "learned", now),
      IRCommand_from_dict(StaleCommandDoc, now).v }

Init ==
    /\ code_sets = EmptyDict
    /\ storage \in {f \in [Devices -> UNION {InitFiles(d) : d \in Devices}] :
                       \A d \in Devices : f[d] \in InitFiles(d)}
    /\ clock = 0
    /\ NoLearning
    /\ last = NoCall
    /\ NoGenerator
    /\ NoFileIo
    /\ NoObjects
    /\ NoDiscovery

Next ==
    \/ \E d \in Devices : LoadDevice(d)
    \/ \E d \in Devices : \E io \in IoOutcomes : SaveDevice(d, io)
    \/ \E d \in Devices : GetDeviceCodes(d)
    \/ \E d \in Devices : \E cs \in NewCodeSets(d, clock) : AddDeviceCodes(d, cs)
    \/ \E d \in Devices : \E unlink_ok \in BOOLEAN : RemoveDeviceCodes(d, unlink_ok)
    \/ \E d \in Devices : GetDeviceSummary(d)
    \/ \E c \in MgrCommands(clock) : AddCommand("dev1", "power", "on", c)
    \/ AddCommand("dev1", "__dict__", "device_id", NewCommand("learned", CodeDEF, "learned", clock))
    \/ RemoveCommand("dev1", "power", "on")

Spec == Init /\ [][Next]_vars

----------------------------------------------------------------------------
(* Properties of IRCodeSet, stated over SpecCodeSet *)

\* the step is a call of op: every call sets last, and only Tick moves the clock
IsCall(op) == last'.op = op /\ clock' = clock

\* cs holds a command at (category, key) of one of its six categories
Holds(cs, category, key) ==
    /\ category \in SixCategories
    /\ category \in DOMAIN cs
    /\ cs[category].t = "dict"
    /\ key \in DOMAIN cs[category].d

\* the (category, key) pairs of the commands cs holds
Stored(cs) == {s \in SixCategories \X Range(KeyOrder) : Holds(cs, s[1], s[2])}

\* C1: for every category that is none of the six names, add_command returns
\* false and leaves the code set as it was: the six mappings, every other
\* attribute and updated_at.
C1_AddUnknownCategoryChangesNothing ==
    [][ (IsCall("add_command") /\ last'.category \notin SixCategories)
            => (last'.ret = FALSE /\ code_sets' = code_sets) ]_vars

\* C4: get_command returns None for a category that is none of the six names
\* and for a key its category does not hold, the stored command otherwise, and
\* never changes the code set.
C4_GetCommandNullOrStored ==
    [][ IsCall("get_command") =>
          LET cs == code_sets[last'.dev]
              category == last'.category
              key == last'.key
          IN  /\ code_sets' = code_sets
              /\ last'.ret # Raised
              /\ IF Holds(cs, category, key)
                     THEN last'.ret = CmdV(cs[category].d[key])
                     ELSE last'.ret = NoneV ]_vars

\* C5: after add_command(category, key, c) on one of the six categories
\* returned true, get_command(category, key) returns c (the last one added
\* wins), every other (category, key) is as before, and get_command_count did
\* not grow when the key was already there.
C5_AddThenGet ==
    [][ (IsCall("add_command") /\ last'.category \in SixCategories /\ last'.ret = TRUE)
          => LET before == code_sets[last'.dev]
                 after == code_sets'[last'.dev]
                 category == last'.category
                 key == last'.key
             IN  /\ get_command(after, category, key) = last'.arg
                 /\ get_command(after, category, key).c.code = last'.arg.c.code
                 /\ \A s \in (SixCategories \X Range(KeyOrder)) \ {<<category, key>>} :
                       get_command(after, s[1], s[2]) = get_command(before, s[1], s[2])
                 /\ get_command(before, category, key) # NoneV
                       => get_command_count(after) = get_command_count(before)
                 /\ get_command(before, category, key) = NoneV
                       => (get_command_count(before) # Raised
                             => get_command_count(after) = Ok(get_command_count(before).v + 1)) ]_vars

\* a second command was added under a key that held another one
C5_Witness ==
    /\ last.op = "add_command"
    /\ last.ret = TRUE
    /\ last.category = "power" /\ last.key = "on"
    /\ last.arg.c.code = CodeShort /\ last.arg.c.timestamp = 1
    /\ get_command(code_sets["dev1"], "power", "on") = last.arg
    /\ Holds(code_sets["dev1"], "mode", "cool")
    /\ code_sets["dev1"]["created_at"] = TimeV(0)
    /\ get_command_count(code_sets["dev1"]) = Ok(2)

\* C6: remove_command returns true exactly when the key is held by one of the
\* six categories; then get_command returns None and get_command_count is one
\* less; otherwise the code set is unchanged.
C6_RemoveCommand ==
    [][ IsCall("remove_command") =>
          LET before == code_sets[last'.dev]
              after == code_sets'[last'.dev]
              category == last'.category
              key == last'.key
          IN  /\ last'.ret = Holds(before, category, key)
              /\ last'.ret = TRUE =>
                    /\ get_command(after, category, key) = NoneV
                    /\ get_command_count(before) # Raised
                    /\ get_command_count(after) = Ok(get_command_count(before).v - 1)
              /\ last'.ret = FALSE => after = before ]_vars

\* what validate_commands is to return for cs: disjoint valid and invalid
\* lists that hold one identifier per stored command, valid exactly for the
\* flagged ones, lengths that add up to get_command_count and to the counts
\* of the summary, and the absent essential commands as missing
ValidationAgrees(cs, ret, summary) ==
    /\ ret # Raised
    /\ LET v == ret.v
       IN  /\ Range(v.valid) \cap Range(v.invalid) = {}
           /\ Cardinality(Range(v.valid)) = Len(v.valid)
           /\ Cardinality(Range(v.invalid)) = Len(v.invalid)
           /\ Range(v.valid) \cup Range(v.invalid) =
                  {CommandId(s[1], s[2]) : s \in Stored(cs)}
           /\ \A s \in Stored(cs) :
                  CommandId(s[1], s[2]) \in Range(v.valid)
                      <=> cs[s[1]].d[s[2]].validated
           /\ get_command_count(cs) = Ok(Len(v.valid) + Len(v.invalid))
           /\ summary # Raised
           /\ summary.v.total_commands = Len(v.valid) + Len(v.invalid)
           /\ summary.v.valid_commands = Len(v.valid)
           /\ summary.v.invalid_commands = Len(v.invalid)
           /\ Cardinality(Range(v.missing)) = Len(v.missing)
           /\ Range(v.missing) =
                  {CommandId(e[1], e[2]) : e \in
                      {x \in Range(EssentialCommands) : ~ Holds(cs, x[1], x[2])}}

\* C7: for every reachable code set validate_commands returns disjoint valid
\* and invalid lists with one identifier per stored command, an identifier in
\* valid iff its command's flag is true, their lengths adding up to
\* get_command_count (which the summary reports), and missing lists exactly
\* the absent ones of power.on, power.off, mode.cool, fan_speed.auto.
C7_ValidatePartitions ==
    last.op = "validate_commands" =>
        ValidationAgrees(code_sets[last.dev], last.ret,
                         get_device_summary(code_sets, last.dev))

\* what from_dict(to_dict(before)) is to return
RoundTripAgrees(before, ret) ==
    /\ ret # Raised
    /\ LET after == ret.v
       IN  /\ \A f \in IdentityFields : attr(after, f) = attr(before, f)
           /\ \A c \in SixCategories :
                 /\ attr(before, c) # Raised
                 /\ before[c].t = "dict"
                 /\ DOMAIN after[c].d = DOMAIN before[c].d
                 /\ \A k \in DOMAIN before[c].d :
                       /\ after[c].d[k].code = before[c].d[k].code
                       /\ after[c].d[k].validated = before[c].d[k].validated
           /\ get_command_count(before) # Raised
           /\ get_command_count(after) = get_command_count(before)

\* C8: IRCodeSet.from_dict(cs.to_dict()) has the identity fields of cs, the
\* same keys in each category, the same command count, and for each command
\* the same code and the same flag.
C8_RoundTrip ==
    [][ IsCall("round_trip") =>
            RoundTripAgrees(code_sets[last'.dev], last'.ret) ]_vars

\* no call has yet replaced or deleted a field of cs through "__dict__"
Intact(cs) ==
    /\ DOMAIN cs = DOMAIN NewCodeSet("dev1", 0)
    /\ \A c \in SixCategories : cs[c].t = "dict"
    /\ \A f \in IdentityFields : cs[f].t = "str"

\* validate_commands is as C7 says on every code set that is intact
ValidateOnIntact ==
    (last.op = "validate_commands" /\ Intact(code_sets[last.dev])) =>
        ValidationAgrees(code_sets[last.dev], last.ret,
                         get_device_summary(code_sets, last.dev))

\* the round trip is as C8 says on every code set that is intact
RoundTripOnIntact ==
    [][ (IsCall("round_trip") /\ Intact(code_sets[last'.dev])) =>
            RoundTripAgrees(code_sets[last'.dev], last'.ret) ]_vars

----------------------------------------------------------------------------
(* Properties of the validity flag and of IRCodeManager, stated over Spec *)

\* code decodes as Base64 to at least one byte
DecodesNonEmpty(code) == b64decode(code) # B64Error /\ b64decode(code) >= 1

\* the commands a code set holds, in its category dicts or as a field
CommandsOf(cs) ==
    UNION { IF cs[a].t = "dict" THEN Range(cs[a].d)
            ELSE IF cs[a].t = "cmd" THEN {cs[a].c}
            ELSE {} : a \in DOMAIN cs }

\* C2: in every reachable state every IRCommand held by a code set has
\* validated = true iff its code decodes as Base64 to at least one byte,
\* whichever way it was constructed (a new command of the parser, of learning
\* or of an import, or from_dict of an import entry or of a persisted document).
C2_ValidatedIffBase64 ==
    \A d \in DOMAIN code_sets : \A c \in CommandsOf(code_sets[d]) :
        c.validated <=> DecodesNonEmpty(c.code)

\* a code set loaded from the stale document holds commands of all kinds of
\* codes, and a learned command besides
C2_Witness ==
    /\ "dev1" \in DOMAIN code_sets
    /\ storage["dev1"] = JsonFile(StaleDoc("dev1"))
    /\ LET cs == code_sets["dev1"]
       IN  /\ Holds(cs, "power", "off") /\ cs["power"].d["off"].validated
           /\ Holds(cs, "mode", "cool") /\ ~ cs["mode"].d["cool"].validated
           /\ Holds(cs, "swing", "on") /\ ~ cs["swing"].d["on"].validated
           /\ Holds(cs, "power", "on") /\ cs["power"].d["on"].raw_data = "learned"

\* the step is a load that filled the cache from the storage file
LoadedFromStorage ==
    /\ IsCall("async_load_device")
    /\ last'.dev \notin DOMAIN code_sets
    /\ last'.dev \in DOMAIN code_sets'

Deserializes(store, device_id, now) ==
    /\ store[device_id].t = "json"
    /\ IRCodeSet_from_dict(store[device_id].v, now) # Raised

\* C9: load returns the cached code set when there is one; otherwise, when a
\* persisted document exists and deserializes, it caches that code set and
\* returns it; otherwise it returns None and caches nothing. It never raises
\* and writes nothing.
C9_LoadDevice ==
    [][ IsCall("async_load_device") =>
          LET d == last'.dev
          IN  /\ storage' = storage
              /\ last'.ret # Raised
              /\ d \in DOMAIN code_sets =>
                    /\ last'.ret = code_sets[d]
                    /\ code_sets' = code_sets
              /\ (d \notin DOMAIN code_sets /\ Deserializes(storage, d, clock)) =>
                    /\ last'.ret = IRCodeSet_from_dict(storage[d].v, clock).v
                    /\ code_sets' = DictSet(code_sets, d, last'.ret)
              /\ (d \notin DOMAIN code_sets /\ ~ Deserializes(storage, d, clock)) =>
                    /\ last'.ret = NoneV
                    /\ code_sets' = code_sets ]_vars

\* a document that does not deserialize was loaded: None, and no cache entry
C9_Witness ==
    /\ last.op = "async_load_device"
    /\ last.dev = "dev1"
    /\ storage["dev1"] = JsonFile(BrokenDoc("dev1"))
    /\ last.ret = NoneV
    /\ "dev1" \notin DOMAIN code_sets
    /\ "dev2" \in DOMAIN code_sets

\* after has the categories, keys and codes of before
SameCommands(before, after) ==
    \A c \in SixCategories :
        /\ c \in DOMAIN before /\ before[c].t = "dict"
        /\ c \in DOMAIN after /\ after[c].t = "dict"
        /\ DOMAIN after[c].d = DOMAIN before[c].d
        /\ \A k \in DOMAIN before[c].d : after[c].d[k].code = before[c].d[k].code

\* C10: save returns false and writes nothing when no code set is cached, and
\* false when the write fails; when it returns true the file holds the
\* serialization of the cached code set, which a manager with an empty cache
\* loads as a code set with the same categories, keys and codes.
C10_SaveDevice ==
    [][ IsCall("async_save_device") =>
          LET d == last'.dev
          IN  /\ code_sets' = code_sets
              /\ d \notin DOMAIN code_sets =>
                    (last'.ret = FALSE /\ storage' = storage)
              /\ last'.arg # StrV("ok") => last'.ret = FALSE
              /\ last'.ret = TRUE =>
                    /\ IRCodeSet_to_dict(code_sets[d]) # Raised
                    /\ storage' = DictSet(storage, d,
                                          JsonFile(IRCodeSet_to_dict(code_sets[d]).v))
                    /\ LET r == async_load_device(EmptyDict, storage', d, clock)
                       IN  /\ r.ret # NoneV
                           /\ SameCommands(code_sets[d], r.ret) ]_vars

\* a code set with a command was saved over the stale document
C10_Witness ==
    /\ last.op = "async_save_device"
    /\ last.dev = "dev1"
    /\ last.ret = TRUE
    /\ "dev1" \in DOMAIN code_sets
    /\ Holds(code_sets["dev1"], "power", "on")
    /\ Holds(code_sets["dev1"], "mode", "cool")
    /\ code_sets["dev1"]["power"].d["on"].code = CodeDEF
    /\ storage["dev1"] = JsonFile(IRCodeSet_to_dict(code_sets["dev1"]).v)

----------------------------------------------------------------------------
(* Properties of removing and registering code sets, stated over Spec *)

\* C11: after remove_device_codes(device_id) returns, the device has neither
\* a cache entry nor a persisted document, and a following load returns None;
\* it returns false only when the device was neither cached nor persisted;
\* calling it again returns false and changes nothing.
C11_RemoveDeviceCodes ==
    [][ IsCall("remove_device_codes") =>
          LET d == last'.dev
          IN  /\ d \notin DOMAIN code_sets'
              /\ storage'[d] = Absent
              /\ async_load_device(code_sets', storage', d, clock).ret = NoneV
              /\ last'.ret = FALSE => (d \notin DOMAIN code_sets /\ storage[d] = Absent)
              /\ \A unlink_ok \in BOOLEAN :
                    remove_device_codes(code_sets', storage', d, unlink_ok)
                        = [ret |-> FALSE, code_sets |-> code_sets', storage |-> storage'] ]_vars

\* C12: add_device_codes(code_set) returns true and makes get_device_codes of
\* the code set's device return that code set with all its commands, in place
\* of the one cached before; the persisted documents and the cache entries of
\* the other devices are unchanged.
C12_AddDeviceCodes ==
    [][ IsCall("add_device_codes") =>
          LET d == last'.dev
              code_set == last'.arg
          IN  /\ last'.ret = TRUE
              /\ get_device_codes(code_sets', d) = code_set
              /\ Stored(get_device_codes(code_sets', d)) = Stored(code_set)
              /\ storage' = storage
              /\ \A e \in Devices \ {d} :
                    /\ e \in DOMAIN code_sets' <=> e \in DOMAIN code_sets
                    /\ e \in DOMAIN code_sets => code_sets'[e] = code_sets[e] ]_vars

\* a code set with a command replaced the code set loaded from the stale
\* document, whose file and the other device's entry are still there
C12_Witness ==
    /\ last.op = "add_device_codes"
    /\ last.dev = "dev1"
    /\ last.ret = TRUE
    /\ Holds(last.arg, "power", "off")
    /\ code_sets["dev1"] = last.arg
    /\ ~ Holds(code_sets["dev1"], "mode", "cool")
    /\ storage["dev1"] = JsonFile(StaleDoc("dev1"))
    /\ "dev2" \in DOMAIN code_sets
    /\ Holds(code_sets["dev2"], "power", "on")

----------------------------------------------------------------------------
(* DeviceManager: learning sessions *)

\* sessions are numbered in the order of their creation, up to MaxSessions
MaxSessions == 2

\* LEARN_TIMEOUT, the default timeout of a session in seconds
LEARN_TIMEOUT == 30

\* the (command_name, category, key) a learn request names
LearnTargets ==
    { <<"Power on", "power", "on">>, <<"Custom", "custom", "power">>,
      <<"Power", "__dict__", "power">> }

\* the codes the device reports as learned
LearnedCodes == {CodeDEF}

\* how the file system answers the save of a learned command
LearnIo == {"ok"}

\* the session dict of async_learn_ir_command; sid tells the dict objects apart
Session(device_id, command_name, category, key, timeout, now, sid) ==
    [ device_id |-> device_id, command_name |-> command_name,
      category |-> category, key |-> key, mqtt_topic |-> "topic",
      start_time |-> now, timeout |-> timeout, status |-> "learning",
      sid |-> sid ]

\* variant of learn_begin without the check of lines 214-216: a request
\* replaces the active session
learn_begin_overwriting(sessions, device_id, session) ==
    [accepted |-> TRUE, sessions |-> DictSet(sessions, device_id, session)]

\* async_learn_ir_command up to the publish: the check for an active session
\* and the registration of the new one
learn_begin(sessions, device_id, session) ==
    IF device_id \in DOMAIN sessions
        THEN [accepted |-> FALSE, sessions |-> sessions]
        ELSE [accepted |-> TRUE, sessions |-> DictSet(sessions, device_id, session)]

\* the except clause of async_learn_ir_command: the session table after it
learn_failed(sessions, device_id) ==
    IF device_id \in DOMAIN sessions THEN DictDel(sessions, device_id) ELSE sessions

\* a learning_timeout task: the closure's device_id and command_name; elapsed
\* tells whether its asyncio.sleep(timeout) is over
TimeoutTask(call) ==
    [ sid |-> call.sid, device_id |-> call.device_id,
      command_name |-> call.command_name, elapsed |-> FALSE ]

\* variant of learning_timeout that leaves the session table alone
learning_timeout_idle(sessions, task) ==
    [sessions |-> sessions, removed |-> 0]

\* learning_timeout after its sleep: [sessions, removed], removed the sid of
\* the session popped, 0 when none was
learning_timeout(sessions, task) ==
    IF task.device_id \in DOMAIN sessions
        THEN [ sessions |-> DictDel(sessions, task.device_id),
               removed |-> sessions[task.device_id].sid ]
        ELSE [sessions |-> sessions, removed |-> 0]

\* async_handle_learned_code at time now:
\* [ret, sessions, code_sets, storage, popped, notified]
handle_learned_code(sessions, cache, store, device_id, learned_code, io, now) ==
    IF device_id \notin DOMAIN sessions
        THEN [ ret |-> FALSE, sessions |-> sessions, code_sets |-> cache,
               storage |-> store, popped |-> 0, notified |-> FALSE ]
    ELSE
        LET session == sessions[device_id]
            rest == DictDel(sessions, device_id)
            loaded == async_load_device(cache, store, device_id, now)
        IN  IF loaded.ret = NoneV
                THEN [ ret |-> FALSE, sessions |-> rest, code_sets |-> loaded.code_sets,
                       storage |-> store, popped |-> session.sid, notified |-> FALSE ]
            ELSE
                LET ir_command == NewCommand(session.command_name, learned_code,
                                             "learned", now)
                    added == add_command(loaded.ret, session.category, session.key,
                                         ir_command, now)
                    cache2 == DictSet(loaded.code_sets, device_id, added.cs)
                IN  IF added.ret
                        THEN [ ret |-> TRUE, sessions |-> rest, code_sets |-> cache2,
                               storage |-> async_save_device(cache2, store,
                                                             device_id, io).storage,
                               popped |-> session.sid, notified |-> TRUE ]
                    ELSE [ ret |-> FALSE, sessions |-> rest,
                           code_sets |-> loaded.code_sets, storage |-> store,
                           popped |-> session.sid, notified |-> FALSE ]

\* what a step of a learn request is: its arguments, the session it created
\* (0 when none) and whether the step is the call or the resumption after the
\* publish
LearnArg(step, command_name, timeout, sid) ==
    [t |-> "learn", step |-> step, command_name |-> command_name,
     timeout |-> timeout, sid |-> sid]

\* async_learn_ir_command(device_id, command_name, category, key, topic): the
\* call returns False at once, or registers the session and suspends at the
\* publish
LearnIrCommand(device_id, command_name, category, key) ==
    LET sid == session_count + 1
        session == Session(device_id, command_name, category, key,
                           LEARN_TIMEOUT, clock, sid)
        r == learn_begin(learning_sessions, device_id, session)
    IN  IF r.accepted
            THEN /\ session_count < MaxSessions
                 /\ learning_sessions' = r.sessions
                 /\ learn_calls' = learn_calls \cup {session}
                 /\ session_count' = sid
                 /\ last' = Call("async_learn_ir_command.publish", device_id, category,
                                 key, LearnArg("call", command_name, LEARN_TIMEOUT, sid),
                                 NoneV)
                 /\ UNCHANGED <<code_sets, storage, clock, timeout_tasks,
                                mqtt_published, learned_sessions, notifications>>
                 /\ UNCHANGED gen_vars
                 /\ UNCHANGED io_vars
                 /\ UNCHANGED obj_vars
                 /\ UNCHANGED disc_vars
            ELSE /\ last' = Call("async_learn_ir_command", device_id, category, key,
                                 LearnArg("call", command_name, LEARN_TIMEOUT, 0), FALSE)
                 /\ UNCHANGED <<code_sets, storage, clock, dm_vars>>
                 /\ UNCHANGED gen_vars
                 /\ UNCHANGED io_vars
                 /\ UNCHANGED obj_vars
                 /\ UNCHANGED disc_vars

\* the publish of a suspended call succeeded: the timeout task is created and
\* the call returns True
LearnPublished(call) ==
    /\ call \in learn_calls
    /\ learn_calls' = learn_calls \ {call}
    /\ mqtt_published' = mqtt_published \cup {call.sid}
    /\ timeout_tasks' = timeout_tasks \cup {TimeoutTask(call)}
    /\ last' = Call("async_learn_ir_command", call.device_id, call.category, call.key,
                    LearnArg("resume", call.command_name, call.timeout, call.sid), TRUE)
    /\ UNCHANGED <<code_sets, storage, clock, learning_sessions, session_count,
                   learned_sessions, notifications>>
    /\ UNCHANGED gen_vars
    /\ UNCHANGED io_vars
    /\ UNCHANGED obj_vars
    /\ UNCHANGED disc_vars

\* the publish of a suspended call raised: the except clause runs and the call
\* returns False
LearnPublishFails(call) ==
    /\ call \in learn_calls
    /\ learn_calls' = learn_calls \ {call}
    /\ learning_sessions' = learn_failed(learning_sessions, call.device_id)
    /\ last' = Call("async_learn_ir_command", call.device_id, call.category, call.key,
                    LearnArg("resume", call.command_name, call.timeout, call.sid), FALSE)
    /\ UNCHANGED <<code_sets, storage, clock, timeout_tasks, session_count,
                   mqtt_published, learned_sessions, notifications>>
    /\ UNCHANGED gen_vars
    /\ UNCHANGED io_vars
    /\ UNCHANGED obj_vars
    /\ UNCHANGED disc_vars

\* the sleep of a timeout task is over
TimeoutElapses(task) ==
    /\ task \in timeout_tasks
    /\ ~ task.elapsed
    /\ timeout_tasks' = (timeout_tasks \ {task}) \cup {[task EXCEPT !.elapsed = TRUE]}
    /\ last' = Call("asyncio.sleep", task.device_id, "", "",
                    [t |-> "task", sid |-> task.sid, removed |-> 0], NoneV)
    /\ UNCHANGED <<code_sets, storage, clock, learning_sessions, learn_calls,
                   session_count, mqtt_published, learned_sessions, notifications>>
    /\ UNCHANGED gen_vars
    /\ UNCHANGED io_vars
    /\ UNCHANGED obj_vars
    /\ UNCHANGED disc_vars

\* a timeout task runs after its sleep and finishes
LearningTimeout(task) ==
    /\ task \in timeout_tasks
    /\ task.elapsed
    /\ LET r == learning_timeout(learning_sessions, task)
       IN  /\ learning_sessions' = r.sessions
           /\ notifications' =
                 IF r.removed = 0 THEN notifications
                 ELSE notifications \cup
                        {[ id |-> "timeout", device_id |-> task.device_id,
                           command_name |-> task.command_name,
                           task |-> task.sid, session |-> r.removed ]}
           /\ last' = Call("learning_timeout", task.device_id, "", "",
                           [t |-> "task", sid |-> task.sid, removed |-> r.removed],
                           NoneV)
    /\ timeout_tasks' = timeout_tasks \ {task}
    /\ UNCHANGED <<code_sets, storage, clock, learn_calls, session_count,
                   mqtt_published, learned_sessions>>
    /\ UNCHANGED gen_vars
    /\ UNCHANGED io_vars
    /\ UNCHANGED obj_vars
    /\ UNCHANGED disc_vars

\* async_handle_learned_code(device_id, learned_code, topic)
HandleLearnedCode(device_id, learned_code, io) ==
    LET r == handle_learned_code(learning_sessions, code_sets, storage, device_id,
                                 learned_code, io, clock)
    IN  /\ learning_sessions' = r.sessions
        /\ code_sets' = r.code_sets
        /\ storage' = r.storage
        /\ learned_sessions' = IF r.popped = 0 THEN learned_sessions
                               ELSE learned_sessions \cup {r.popped}
        /\ notifications' =
              IF r.notified
                  THEN notifications \cup
                         {[ id |-> "success", device_id |-> device_id,
                            command_name |-> learning_sessions[device_id].command_name,
                            task |-> 0, session |-> r.popped ]}
                  ELSE notifications
        /\ last' = Call("async_handle_learned_code", device_id, "", "",
                        [t |-> "code", code |-> learned_code, io |-> io,
                         sid |-> r.popped],
                        r.ret)
        /\ UNCHANGED <<clock, learn_calls, timeout_tasks, session_count,
                       mqtt_published>>
    /\ UNCHANGED gen_vars
    /\ UNCHANGED io_vars
    /\ UNCHANGED obj_vars
    /\ UNCHANGED disc_vars

\* a DeviceManager with dev1 set up (its empty code set cached) and dev2 unknown
InitLearn ==
    /\ code_sets = ("dev1" :> NewCodeSet("dev1", 0))
    /\ storage = [d \in Devices |-> Absent]
    /\ clock = 0
    /\ NoLearning
    /\ last = NoCall
    /\ NoGenerator
    /\ NoFileIo
    /\ NoObjects
    /\ NoDiscovery

NextLearn ==
    \/ \E g \in LearnTargets : LearnIrCommand("dev1", g[1], g[2], g[3])
    \/ LearnIrCommand("dev2", "Power on", "power", "on")
    \/ \E call \in learn_calls : LearnPublished(call)
    \/ \E call \in learn_calls : LearnPublishFails(call)
    \/ \E task \in timeout_tasks : TimeoutElapses(task)
    \/ \E task \in timeout_tasks : LearningTimeout(task)
    \/ \E d \in Devices : \E c \in LearnedCodes : \E io \in LearnIo :
          HandleLearnedCode(d, c, io)

SpecLearn == InitLearn /\ [][NextLearn]_vars

\* the publish of a suspended call ends, every sleep ends and every task whose
\* sleep is over runs
SpecLearnLive ==
    /\ SpecLearn
    /\ WF_vars(\E call \in learn_calls : LearnPublished(call) \/ LearnPublishFails(call))
    /\ WF_vars(\E task \in timeout_tasks : TimeoutElapses(task))
    /\ WF_vars(\E task \in timeout_tasks : LearningTimeout(task))

----------------------------------------------------------------------------
(* Properties of the learning sessions, stated over SpecLearn and SpecLearnLive *)

\* the session numbers
SessionIds == 1 .. MaxSessions

\* session sid is in the session table
InTable(sid) ==
    \E d \in DOMAIN learning_sessions : learning_sessions[d].sid = sid

\* the step is the call of async_learn_ir_command (not its resumption)
LearnCalled ==
    /\ last'.op \in {"async_learn_ir_command", "async_learn_ir_command.publish"}
    /\ last'.arg.step = "call"

\* C13: the session table holds at most one session per device, the one
\* registered under the device's id, and async_learn_ir_command for a device
\* with an active session returns false, publishes nothing, creates no timeout
\* task and leaves the table, the active session included, unchanged.
C13_OneSessionPerDevice ==
    [][ /\ \A d \in DOMAIN learning_sessions' :
              /\ learning_sessions'[d].device_id = d
              /\ \A e \in DOMAIN learning_sessions' :
                    learning_sessions'[e].sid = learning_sessions'[d].sid => e = d
        /\ (LearnCalled /\ last'.dev \in DOMAIN learning_sessions) =>
              /\ UNCHANGED <<learning_sessions, learn_calls, timeout_tasks,
                             mqtt_published, session_count, notifications>>
              /\ last'.op = "async_learn_ir_command"
              /\ last'.ret = FALSE ]_vars

\* a request for another command of dev1 was rejected while the session of
\* dev1 waits for its code, its timeout task sleeping
C13_Witness ==
    /\ last.op = "async_learn_ir_command"
    /\ last.arg.step = "call"
    /\ last.dev = "dev1"
    /\ last.ret = FALSE
    /\ "dev1" \in DOMAIN learning_sessions
    /\ learning_sessions["dev1"].command_name # last.arg.command_name
    /\ learning_sessions["dev1"].sid \in mqtt_published
    /\ \E task \in timeout_tasks :
          task.sid = learning_sessions["dev1"].sid /\ ~ task.elapsed

\* the sleep of the timeout task of session sid is over
TimeoutElapsed(sid) ==
    /\ sid \in mqtt_published
    /\ \A task \in timeout_tasks : task.sid = sid => task.elapsed

\* C14: the timeout task of a session that a learned code completed removes no
\* session and sends no notification, also when another session of the device
\* was started meanwhile; a session is removed by a timeout task only after
\* its own timeout has elapsed.
C14_CompletionExcludesTimeout ==
    [][ last'.op = "learning_timeout" =>
          /\ last'.arg.sid \in learned_sessions =>
                /\ last'.arg.removed = 0
                /\ learning_sessions' = learning_sessions
                /\ notifications' = notifications
          /\ last'.arg.removed # 0 => TimeoutElapsed(last'.arg.removed) ]_vars

\* C15: every session whose learn request returned true is eventually out of
\* the session table, so the device eventually has no session and a learn
\* request is accepted again; a request whose publish failed leaves no session
\* of the device behind.
C15_SessionsEnd ==
    /\ \A sid \in SessionIds : (sid \in mqtt_published) ~> ~ InTable(sid)
    /\ \A d \in Devices :
          (d \in DOMAIN learning_sessions) ~> (d \notin DOMAIN learning_sessions)
    /\ [][ ( /\ last'.op = "async_learn_ir_command"
             /\ last'.arg.step = "resume"
             /\ last'.ret = FALSE )
           => last'.dev \notin DOMAIN learning_sessions' ]_vars

\* a session for which no code arrived was removed by its own timeout task,
\* and the session of a request whose publish failed is gone as well
C15_Witness ==
    /\ \E n \in notifications :
          /\ n.id = "timeout"
          /\ n.task = n.session
          /\ n.session \in mqtt_published
          /\ n.session \notin learned_sessions
          /\ ~ InTable(n.session)
    /\ last.op = "async_learn_ir_command"
    /\ last.arg.step = "resume"
    /\ last.ret = FALSE
    /\ last.dev \notin DOMAIN learning_sessions

----------------------------------------------------------------------------
(* SmartIRGenerator *)

\* the temperature range used when the code set has no temperature keys
POINTCODES_MIN_TEMP == 17
POINTCODES_MAX_TEMP == 30

\* the internal modes in the order of _get_hvac_mode_mapping
HvacModeOrder == <<"cool", "heat", "dry", "fan_only", "auto", "sleep">>

\* _get_hvac_mode_mapping: internal mode -> SmartIR mode
hvac_mode_mapping ==
    [m \in Range(HvacModeOrder) |-> IF m = "sleep" THEN "auto" ELSE m]

\* the internal fan modes in the order of _get_fan_mode_mapping
FanModeOrder == <<"low", "medium", "high", "auto">>

\* _get_fan_mode_mapping
fan_mode_mapping == [m \in Range(FanModeOrder) |-> m]

\* the internal swing modes in the order of _get_swing_mode_mapping
SwingModeOrder == <<"off", "on">>

\* _get_swing_mode_mapping
swing_mode_mapping ==
    [m \in Range(SwingModeOrder) |-> IF m = "on" THEN "vertical" ELSE m]

\* str.isdigit() and int() on the keys of the model: the keys that are digits
\* (the decimal numerals of 16..31) and the integers they denote
DigitKeys ==
    ("16" :> 16) @@ ("17" :> 17) @@ ("18" :> 18) @@ ("19" :> 19)
    @@ ("20" :> 20) @@ ("21" :> 21) @@ ("22" :> 22) @@ ("23" :> 23)
    @@ ("24" :> 24) @@ ("25" :> 25) @@ ("26" :> 26) @@ ("27" :> 27)
    @@ ("28" :> 28) @@ ("29" :> 29) @@ ("30" :> 30) @@ ("31" :> 31)

\* str(n) for the integers of DigitKeys
str(n) == CHOOSE k \in DOMAIN DigitKeys : DigitKeys[k] = n

\* [int(temp) for temp in code_set.temperature.keys() if temp.isdigit()]
available_temps(cs) ==
    {DigitKeys[k] : k \in DOMAIN cs["temperature"].d \cap DOMAIN DigitKeys}

\* `command and command.validated` for the result of get_command
usable(command) == command # NoneV /\ command.t = "cmd" /\ command.c.validated

Min(S) == CHOOSE n \in S : \A m \in S : n <= m
Max(S) == CHOOSE n \in S : \A m \in S : n >= m

\* the loop of _build_temperature_commands from the i-th internal mode on,
\* temp_commands being acc
RECURSIVE TempCommandsFrom(_, _, _)
TempCommandsFrom(cs, i, acc) ==
    IF i > Len(HvacModeOrder) THEN acc
    ELSE LET internal_mode == HvacModeOrder[i]
             smartir_mode == hvac_mode_mapping[internal_mode]
             mode_command == get_command(cs, "mode", internal_mode)
         IN  IF ~ usable(mode_command) THEN TempCommandsFrom(cs, i + 1, acc)
             ELSE TempCommandsFrom(cs, i + 1,
                      DictSet(acc, smartir_mode,
                              [ t \in {str(n) : n \in available_temps(cs)} |->
                                  LET temp_command == get_command(cs, "temperature", t)
                                  IN  IF usable(temp_command) THEN temp_command.c.code
                                      ELSE mode_command.c.code ]))

\* _build_temperature_commands
build_temperature_commands(cs) ==
    IF available_temps(cs) = {} THEN EmptyDict ELSE TempCommandsFrom(cs, 1, EmptyDict)

\* variant of _build_fan_commands without the test of the flag (line 122)
build_fan_commands_unvalidated(cs) ==
    [ f \in {fan_mode_mapping[m] : m \in
                {m \in Range(FanModeOrder) : get_command(cs, "fan_speed", m) # NoneV}} |->
        get_command(cs, "fan_speed", f).c.code ]

\* _build_fan_commands
build_fan_commands(cs) ==
    [ f \in {fan_mode_mapping[m] : m \in
                {m \in Range(FanModeOrder) : usable(get_command(cs, "fan_speed", m))}} |->
        get_command(cs, "fan_speed", f).c.code ]

\* _build_swing_commands
build_swing_commands(cs) ==
    LET internal == {m \in Range(SwingModeOrder) : usable(get_command(cs, "swing", m))}
    IN  [ w \in {swing_mode_mapping[m] : m \in internal} |->
            get_command(cs, "swing",
                        CHOOSE m \in internal : swing_mode_mapping[m] = w).c.code ]

\* the loop of _get_supported_modes from the i-th internal mode on
RECURSIVE SupportedModesFrom(_, _, _)
SupportedModesFrom(cs, i, acc) ==
    IF i > Len(HvacModeOrder) THEN acc
    ELSE LET smartir_mode == hvac_mode_mapping[HvacModeOrder[i]]
         IN  IF usable(get_command(cs, "mode", HvacModeOrder[i]))
                  /\ smartir_mode \notin Range(acc)
                 THEN SupportedModesFrom(cs, i + 1, Append(acc, smartir_mode))
                 ELSE SupportedModesFrom(cs, i + 1, acc)

\* _get_supported_modes
get_supported_modes(cs) == SupportedModesFrom(cs, 1, <<"off">>)

\* _get_supported_fan_modes
get_supported_fan_modes(cs) ==
    LET kept == SelectSeq(FanModeOrder,
                          LAMBDA m : usable(get_command(cs, "fan_speed", m)))
    IN  [j \in 1..Len(kept) |-> fan_mode_mapping[kept[j]]]

\* _get_supported_swing_modes
get_supported_swing_modes(cs) ==
    LET kept == SelectSeq(SwingModeOrder,
                          LAMBDA m : usable(get_command(cs, "swing", m)))
    IN  [j \in 1..Len(kept) |-> swing_mode_mapping[kept[j]]]

\* the temperatures of the keys whose command is validated
validated_temps(cs) ==
    {DigitKeys[k] : k \in {k \in DOMAIN cs["temperature"].d \cap DOMAIN DigitKeys :
                              cs["temperature"].d[k].validated}}

\* variant of _get_temperature_range that counts validated commands only
get_temperature_range_validated(cs) ==
    IF validated_temps(cs) # {}
        THEN <<Min(validated_temps(cs)), Max(validated_temps(cs))>>
        ELSE <<POINTCODES_MIN_TEMP, POINTCODES_MAX_TEMP>>

\* _get_temperature_range
get_temperature_range(cs) ==
    IF available_temps(cs) # {}
        THEN <<Min(available_temps(cs)), Max(available_temps(cs))>>
        ELSE <<POINTCODES_MIN_TEMP, POINTCODES_MAX_TEMP>>

\* a SmartIR document as a Python value
ConfigV(config) == [t |-> "config", config |-> config]

\* variant of the document builder whose tests of lines 211 and 215 look only
\* at the presence of the two power commands, not at their flags
smartir_config_unvalidated_power(cs, device_id, now) ==
    LET validation == validate_commands(cs)
        power_on == get_command(cs, "power", "on")
        power_off == get_command(cs, "power", "off")
    IN  IF validation = Raised THEN NoneV
        ELSE IF power_on = NoneV THEN NoneV
        ELSE IF power_off = NoneV THEN NoneV
        ELSE IF get_command_count(cs) = Raised THEN NoneV
        ELSE ConfigV(
            [ manufacturer |-> cs["manufacturer"],
              supportedModels |-> <<cs["model"]>>,
              supportedController |-> "UFO-R11",
              commandsEncoding |-> "Base64",
              minTemperature |-> get_temperature_range(cs)[1],
              maxTemperature |-> get_temperature_range(cs)[2],
              precision |-> 1,
              operationModes |-> get_supported_modes(cs),
              fanModes |-> get_supported_fan_modes(cs),
              swingModes |-> get_supported_swing_modes(cs),
              commands |->
                  [ off |-> power_off.c.code,
                    on |-> power_on.c.code,
                    temperature |-> build_temperature_commands(cs),
                    fanSpeed |-> build_fan_commands(cs),
                    swing |-> build_swing_commands(cs) ],
              _metadata |->
                  [ generated_at |-> now,
                    device_id |-> device_id,
                    device_name |-> cs["device_name"],
                    total_commands |-> get_command_count(cs).v,
                    valid_commands |-> Len(validation.v.valid),
                    invalid_commands |-> Len(validation.v.invalid),
                    source_created_at |-> cs["created_at"],
                    source_updated_at |-> cs["updated_at"] ] ])

\* the body of async_generate_smartir_config for the code set loaded, at time
\* now: None, or the document. validate_commands raises on a code set whose
\* categories are not dicts, which the except clause turns into None.
smartir_config(cs, device_id, now) ==
    LET validation == validate_commands(cs)
        power_on == get_command(cs, "power", "on")
        power_off == get_command(cs, "power", "off")
    IN  IF validation = Raised THEN NoneV
        ELSE IF ~ usable(power_on) THEN NoneV
        ELSE IF ~ usable(power_off) THEN NoneV
        ELSE IF get_command_count(cs) = Raised THEN NoneV
        ELSE ConfigV(
            [ manufacturer |-> cs["manufacturer"],
              supportedModels |-> <<cs["model"]>>,
              supportedController |-> "UFO-R11",
              commandsEncoding |-> "Base64",
              minTemperature |-> get_temperature_range(cs)[1],
              maxTemperature |-> get_temperature_range(cs)[2],
              precision |-> 1,
              operationModes |-> get_supported_modes(cs),
              fanModes |-> get_supported_fan_modes(cs),
              swingModes |-> get_supported_swing_modes(cs),
              commands |->
                  [ off |-> power_off.c.code,
                    on |-> power_on.c.code,
                    temperature |-> build_temperature_commands(cs),
                    fanSpeed |-> build_fan_commands(cs),
                    swing |-> build_swing_commands(cs) ],
              _metadata |->
                  [ generated_at |-> now,
                    device_id |-> device_id,
                    device_name |-> cs["device_name"],
                    total_commands |-> get_command_count(cs).v,
                    valid_commands |-> Len(validation.v.valid),
                    invalid_commands |-> Len(validation.v.invalid),
                    source_created_at |-> cs["created_at"],
                    source_updated_at |-> cs["updated_at"] ] ])

\* how the file system answers _save_config_file
ExportIo == {"ok", "open_fails"}

\* an output path that is an existing directory
OutputDir == StrV("out")

\* f"smartir_{device_id}_{now:%Y%m%d_%H%M%S}.json" inside the directory
ExportName(device_id, now) == <<device_id, now>>

\* _save_config_file for an output path that is a directory: [ret, export_files]
save_config_file(files, config, output_path, device_id, io, now) ==
    IF io = "open_fails" THEN [ret |-> FALSE, export_files |-> files]
    ELSE [ ret |-> TRUE,
           export_files |-> DictSet(files, ExportName(device_id, now), config) ]

\* async_generate_smartir_config at time now:
\* [ret, gen_code_sets, export_files, code_set, written], code_set being what
\* the generator's manager loaded and written whether the file was written
generate_smartir_config(gen_cache, store, files, device_id, output_path, io, now) ==
    CHOOSE out \in
        { [ ret |-> config,
            gen_code_sets |-> loaded.code_sets,
            export_files |-> saved.export_files,
            code_set |-> loaded.ret,
            written |-> saved.ret ] :
          <<loaded, config, saved>> \in
              { <<loaded, config,
                  IF config # NoneV /\ output_path # NoneV
                      THEN save_config_file(files, config.config, output_path,
                                            device_id, io, now)
                      ELSE [ret |-> FALSE, export_files |-> files]>> :
                <<loaded, config>> \in
                    { <<loaded, IF loaded.ret = NoneV THEN NoneV
                                ELSE smartir_config(loaded.ret, device_id, now)>> :
                      loaded \in {async_load_device(gen_cache, store, device_id, now)} } } } :
        TRUE

\* the device ids of the model in a fixed order
DeviceOrder == <<"dev1", "dev2">>

\* get_all_devices: list(self._code_sets.keys())
get_all_devices(cache) == SelectSeq(DeviceOrder, LAMBDA d : d \in DOMAIN cache)

\* the loop of async_generate_bulk_configs from the i-th device on:
\* [results, gen_code_sets, export_files, written]
RECURSIVE BulkFrom(_, _, _, _, _, _)
BulkFrom(devices, i, acc, store, io, now) ==
    IF i > Len(devices) THEN acc
    ELSE CHOOSE out \in
             { BulkFrom(devices, i + 1,
                        [ results |-> DictSet(acc.results, devices[i], r.ret # NoneV),
                          gen_code_sets |-> r.gen_code_sets,
                          export_files |-> r.export_files,
                          written |-> IF r.written THEN acc.written \cup {devices[i]}
                                      ELSE acc.written ],
                        store, io, now) :
               r \in { generate_smartir_config(acc.gen_code_sets, store, acc.export_files,
                                               devices[i], OutputDir, io[devices[i]],
                                               now) } } :
             TRUE

\* async_generate_bulk_configs: device_filter is None or a list of ids, io
\* the answer of the file system for each device's file
generate_bulk_configs(gen_cache, store, files, device_filter, io, now) ==
    LET all == get_all_devices(gen_cache)
        devices == IF device_filter = NoneV \/ device_filter.ids = {} THEN all
                   ELSE SelectSeq(all, LAMBDA d : d \in device_filter.ids)
    IN  BulkFrom(devices, 1,
                 [ results |-> EmptyDict, gen_code_sets |-> gen_cache,
                   export_files |-> files, written |-> {} ],
                 store, io, now)

\* a device_filter argument
FilterV(ids) == [t |-> "filter", ids |-> ids]

\* generator.async_generate_smartir_config(device_id, output_path)
GenerateSmartirConfig(device_id, output_path, io) ==
    /\ \E r \in {generate_smartir_config(gen_code_sets, storage, export_files,
                                          device_id, output_path, io, clock)} :
           /\ gen_code_sets' = r.gen_code_sets
           /\ export_files' = r.export_files
           /\ last' = Call("async_generate_smartir_config", device_id, "", "",
                           [ t |-> "generate", output_path |-> output_path,
                             written |-> r.written ],
                           r.ret)
    /\ UNCHANGED <<code_sets, storage, clock>>
    /\ UNCHANGED dm_vars
    /\ UNCHANGED io_vars
    /\ UNCHANGED obj_vars
    /\ UNCHANGED disc_vars

\* generator.async_generate_bulk_configs(output_dir, device_filter)
GenerateBulkConfigs(device_filter, io) ==
    /\ \E r \in {generate_bulk_configs(gen_code_sets, storage, export_files,
                                        device_filter, io, clock)} :
           /\ gen_code_sets' = r.gen_code_sets
           /\ export_files' = r.export_files
           /\ last' = Call("async_generate_bulk_configs", "", "", "",
                           [ t |-> "bulk", device_filter |-> device_filter,
                             written |-> r.written ],
                           [t |-> "results", results |-> r.results])
    /\ UNCHANGED <<code_sets, storage, clock>>
    /\ UNCHANGED dm_vars
    /\ UNCHANGED io_vars
    /\ UNCHANGED obj_vars
    /\ UNCHANGED disc_vars

----------------------------------------------------------------------------
(* SpecGen: the generator over the code sets the manager persisted *)

CodeCool == <<"Y", "2", "9", "s">>
CodeAuto == <<"Y", "X", "V", "0">>
CodeSleep == <<"c", "2", "x", "w">>
CodeT20 == <<"M", "j", "B", "j">>
CodeT24 == <<"M", "j", "R", "j">>

\* what a slot of a persisted code set holds: nothing, a valid code, a code
\* that is no Base64
SlotStates == {"absent", "valid", "invalid"}

\* the slots of the persisted code sets and their valid codes
GenSlots ==
    << [category |-> "power", key |-> "on", name |-> "ON", code |-> CodeABC],
       [category |-> "power", key |-> "off", name |-> "OFF", code |-> CodeDEF],
       [category |-> "mode", key |-> "cool", name |-> "Mode cool", code |-> CodeCool],
       [category |-> "mode", key |-> "auto", name |-> "Mode automatic", code |-> CodeAuto],
       [category |-> "mode", key |-> "sleep", name |-> "Mode sleep", code |-> CodeSleep],
       [category |-> "temperature", key |-> "20", name |-> "20c", code |-> CodeT20],
       [category |-> "temperature", key |-> "24", name |-> "24c", code |-> CodeT24],
       [category |-> "temperature", key |-> "auto", name |-> "Auto temp", code |-> CodeT20],
       [category |-> "fan_speed", key |-> "low", name |-> "Fan speed low", code |-> CodeCool],
       [category |-> "fan_speed", key |-> "auto", name |-> "Fan speed automatic",
        code |-> CodeAuto],
       [category |-> "swing", key |-> "on", name |-> "Swing on", code |-> CodeT24],
       [category |-> "swing", key |-> "off", name |-> "swing off", code |-> CodeSleep] >>

\* the commands that category holds when the i-th slot is in state choice[i]
GenCommands(category, choice) ==
    LET slots == {i \in 1..Len(GenSlots) :
                     GenSlots[i].category = category /\ choice[i] # "absent"}
    IN  [ key \in {GenSlots[i].key : i \in slots} |->
            LET i == CHOOSE i \in slots : GenSlots[i].key = key
            IN  IRCommand_to_dict(
                    NewCommand(GenSlots[i].name,
                               IF choice[i] = "valid" THEN GenSlots[i].code ELSE CodeBang,
                               "line", 0)) ]

\* the document async_save_device wrote for the code set parsed from such a file
GenDoc(device_id, choice) ==
    [ f \in DOMAIN StoredDoc(device_id) |->
        IF f \in {"power", "mode", "temperature", "fan_speed", "swing"}
            THEN GenCommands(f, choice)
        ELSE StoredDoc(device_id)[f] ]

V == "valid"
A == "absent"
I == "invalid"

\* the persisted code sets of dev1, each a state per slot. Without fan and
\* swing commands: every state of the two power commands beside a valid
\* mode and temperature; the states of the modes and of temperature 20
\* beside valid power commands; code sets with no temperature, with two,
\* with a temperature key that is no number beside others and alone, and
\* with no mode. With them: the states of the fan and swing commands beside
\* valid power, mode and temperature commands.
NoFanSwing == <<A, A, A, A>>

GenChoices ==
    { <<on, off, V, A, A, V, A, A>> \o NoFanSwing :
        on \in SlotStates, off \in SlotStates }
    \cup
    { <<V, V, cool, auto, sleep, t20, A, A>> \o NoFanSwing :
        cool \in {V, I}, auto \in {A, V}, sleep \in {A, V}, t20 \in {V, I} }
    \cup
    { <<V, V, V, V, V, A, A, A>> \o NoFanSwing, <<V, V, V, A, A, V, V, A>> \o NoFanSwing,
      <<V, V, V, A, A, I, V, V>> \o NoFanSwing, <<V, V, A, A, A, V, A, A>> \o NoFanSwing,
      <<V, V, V, A, A, A, A, V>> \o NoFanSwing }
    \cup
    { <<V, V, V, A, A, V, A, A, low, auto, on, off>> :
        low \in SlotStates, auto \in {A, V}, on \in SlotStates, off \in {A, V} }

GenFiles(device_id) ==
    IF device_id = "dev1"
        THEN {Absent} \cup {JsonFile(GenDoc(device_id, c)) : c \in GenChoices}
        ELSE { JsonFile(GenDoc(device_id, <<V, V, V, A, A, A, A, A>> \o NoFanSwing)) }

InitGen ==
    /\ code_sets = EmptyDict
    /\ \E f1 \in GenFiles("dev1") : \E f2 \in GenFiles("dev2") :
          storage = ("dev1" :> f1) @@ ("dev2" :> f2)
    /\ clock = 0
    /\ NoLearning
    /\ last = NoCall
    /\ NoGenerator
    /\ NoFileIo
    /\ NoObjects
    /\ NoDiscovery

NextGen ==
    \/ AddDeviceCodes("dev2", NewCodeSet("dev2", clock))
    \/ \E d \in Devices : GenerateSmartirConfig(d, NoneV, "ok")
    \/ \E d \in Devices : \E io \in ExportIo : GenerateSmartirConfig(d, OutputDir, io)
    \/ \E device_filter \in {NoneV, FilterV({"dev1"})} : \E io \in [Devices -> ExportIo] :
          GenerateBulkConfigs(device_filter, io)

SpecGen == InitGen /\ [][NextGen]_vars

----------------------------------------------------------------------------
(* Properties of the SmartIR generator, stated over SpecGen *)

GenerateCalled == last.op = "async_generate_smartir_config"

\* the code set the last generation worked on: the one its manager holds
\* for the device after the call, None when it could load none
SourceSet == DictGet(gen_code_sets, last.dev, NoneV)

\* the command is in the code set and its flag is true
PresentAndValidated(cs, category, key) ==
    /\ key \in DOMAIN cs[category].d
    /\ cs[category].d[key].validated

\* C16: generation returns None and writes no file whenever power.on or
\* power.off is absent from the code set or not validated, whatever else the
\* code set holds; a document is returned only when both are present and
\* validated, and its commands.on and commands.off are then their codes.
C16_PowerRequired ==
    GenerateCalled =>
        LET both == /\ SourceSet # NoneV
                    /\ PresentAndValidated(SourceSet, "power", "on")
                    /\ PresentAndValidated(SourceSet, "power", "off")
        IN  /\ ~ both => last.ret = NoneV /\ ~ last.arg.written
            /\ last.ret # NoneV =>
                  /\ both
                  /\ last.ret.config.commands.on = SourceSet["power"].d["on"].code
                  /\ last.ret.config.commands.off = SourceSet["power"].d["off"].code

\* a generation with an output directory, on a code set whose power.on and
\* mode.cool are valid and whose power.off is absent, returned None
C16_Witness ==
    /\ GenerateCalled
    /\ last.arg.output_path = OutputDir
    /\ SourceSet # NoneV
    /\ PresentAndValidated(SourceSet, "power", "on")
    /\ PresentAndValidated(SourceSet, "mode", "cool")
    /\ "off" \notin DOMAIN SourceSet["power"].d
    /\ last.ret = NoneV

\* the keys of the temperature category that are numbers
TemperatureKeys(cs) == DOMAIN cs["temperature"].d \cap DOMAIN DigitKeys

\* the internal modes written as the output mode
WrittenAs(output_mode) ==
    {m \in Range(HvacModeOrder) : hvac_mode_mapping[m] = output_mode}

\* C17: in a generated document an output mode is in commands.temperature
\* only if a mode written as it has a validated command; and for every mode
\* with a validated command that is included and every temperature key T of
\* the source, the payload at [mode][T] is the code of temperature command T
\* when that is validated and otherwise the code of the mode's own command.
C17_TemperaturePayloads ==
    GenerateCalled /\ last.ret # NoneV =>
        LET temperature == last.ret.config.commands.temperature
        IN  /\ \A output_mode \in DOMAIN temperature :
                  \E m \in WrittenAs(output_mode) :
                      PresentAndValidated(SourceSet, "mode", m)
            /\ \A m \in Range(HvacModeOrder) :
                  PresentAndValidated(SourceSet, "mode", m)
                      /\ hvac_mode_mapping[m] \in DOMAIN temperature =>
                  \A T \in TemperatureKeys(SourceSet) :
                      /\ T \in DOMAIN temperature[hvac_mode_mapping[m]]
                      /\ temperature[hvac_mode_mapping[m]][T] =
                            IF PresentAndValidated(SourceSet, "temperature", T)
                                THEN SourceSet["temperature"].d[T].code
                                ELSE SourceSet["mode"].d[m].code

\* C25: in a generated document minTemperature and maxTemperature are the
\* least and the greatest of the temperature keys of the source that are
\* numbers, whether their commands are validated or not; when no key is a
\* number they are POINTCODES_MIN_TEMP and POINTCODES_MAX_TEMP.
C25_TemperatureRange ==
    GenerateCalled /\ last.ret # NoneV =>
        LET temps == {DigitKeys[k] : k \in TemperatureKeys(SourceSet)}
        IN  IF temps # {}
                THEN /\ last.ret.config.minTemperature = Min(temps)
                     /\ last.ret.config.maxTemperature = Max(temps)
                ELSE /\ last.ret.config.minTemperature = POINTCODES_MIN_TEMP
                     /\ last.ret.config.maxTemperature = POINTCODES_MAX_TEMP

\* a document generated from a code set whose temperature 20 is not
\* validated and whose temperature 24 is: the range is 20..24
C25_Witness ==
    /\ GenerateCalled
    /\ last.ret # NoneV
    /\ {"20", "24"} \subseteq DOMAIN SourceSet["temperature"].d
    /\ ~ SourceSet["temperature"].d["20"].validated
    /\ SourceSet["temperature"].d["24"].validated
    /\ last.ret.config.minTemperature = 20
    /\ last.ret.config.maxTemperature = 24

\* C25 as stated: the bounds are the least and the greatest of all the
\* temperature keys present, so they are keys themselves, and the default
\* range stands only when the code set has no temperature key.
C25_RangeOfAllKeys ==
    GenerateCalled /\ last.ret # NoneV =>
        LET keys == DOMAIN SourceSet["temperature"].d
        IN  IF keys # {}
                THEN /\ str(last.ret.config.minTemperature) \in keys
                     /\ str(last.ret.config.maxTemperature) \in keys
                     /\ \A k \in keys \cap DOMAIN DigitKeys :
                           /\ last.ret.config.minTemperature <= DigitKeys[k]
                           /\ DigitKeys[k] <= last.ret.config.maxTemperature
                ELSE /\ last.ret.config.minTemperature = POINTCODES_MIN_TEMP
                     /\ last.ret.config.maxTemperature = POINTCODES_MAX_TEMP

\* C26: in a generated document commands.fanSpeed has an entry for a fan
\* mode iff the source holds a validated fan_speed command under that key,
\* commands.swing has "off" iff swing off is validated and "vertical" iff
\* swing on is; each entry is the command's code; fanModes and swingModes
\* list the keys of the two maps, each once; and a code set with validated
\* power commands yields a document whatever its fan and swing commands.
C26_FanAndSwing ==
    GenerateCalled /\ SourceSet # NoneV =>
        /\ PresentAndValidated(SourceSet, "power", "on")
              /\ PresentAndValidated(SourceSet, "power", "off") => last.ret # NoneV
        /\ last.ret # NoneV =>
              LET config == last.ret.config
                  fanSpeed == config.commands.fanSpeed
                  swing == config.commands.swing
              IN  /\ DOMAIN fanSpeed \subseteq Range(FanModeOrder)
                  /\ \A f \in Range(FanModeOrder) :
                        /\ f \in DOMAIN fanSpeed <=>
                               PresentAndValidated(SourceSet, "fan_speed", f)
                        /\ f \in DOMAIN fanSpeed =>
                               fanSpeed[f] = SourceSet["fan_speed"].d[f].code
                  /\ DOMAIN swing \subseteq {"off", "vertical"}
                  /\ "off" \in DOMAIN swing <=> PresentAndValidated(SourceSet, "swing", "off")
                  /\ "vertical" \in DOMAIN swing <=>
                        PresentAndValidated(SourceSet, "swing", "on")
                  /\ "off" \in DOMAIN swing =>
                        swing["off"] = SourceSet["swing"].d["off"].code
                  /\ "vertical" \in DOMAIN swing =>
                        swing["vertical"] = SourceSet["swing"].d["on"].code
                  /\ Range(config.fanModes) = DOMAIN fanSpeed
                  /\ Len(config.fanModes) = Cardinality(DOMAIN fanSpeed)
                  /\ Range(config.swingModes) = DOMAIN swing
                  /\ Len(config.swingModes) = Cardinality(DOMAIN swing)

\* a document generated from a code set whose fan speed low is stored but
\* not validated, whose fan speed auto and swing on are validated and whose
\* swing off is absent: fanSpeed has auto only and swing vertical only
C26_Witness ==
    /\ GenerateCalled
    /\ last.ret # NoneV
    /\ "low" \in DOMAIN SourceSet["fan_speed"].d
    /\ ~ SourceSet["fan_speed"].d["low"].validated
    /\ PresentAndValidated(SourceSet, "fan_speed", "auto")
    /\ PresentAndValidated(SourceSet, "swing", "on")
    /\ "off" \notin DOMAIN SourceSet["swing"].d
    /\ DOMAIN last.ret.config.commands.fanSpeed = {"auto"}
    /\ DOMAIN last.ret.config.commands.swing = {"vertical"}
    /\ last.ret.config.fanModes = <<"auto">>
    /\ last.ret.config.swingModes = <<"vertical">>

BulkCalled == last.op = "async_generate_bulk_configs"

\* the devices with a code set registered with the manager or persisted by it
KnownDevices == DOMAIN code_sets \cup {d \in Devices : storage[d] # Absent}

\* C18: the success map of a bulk export has exactly one entry for every
\* known device id, restricted to the filter when one is given, and an entry
\* is true iff the device's document was generated and written.
C18_BulkExport ==
    BulkCalled =>
        LET device_filter == last.arg.device_filter
            expected == IF device_filter = NoneV THEN KnownDevices
                        ELSE KnownDevices \cap device_filter.ids
            results == last.ret.results
        IN  /\ DOMAIN results = expected
            /\ \A d \in expected : results[d] = (d \in last.arg.written)

----------------------------------------------------------------------------
(* PointCodesParser: strings are sequences of characters *)

\* the characters str.strip() removes and \s matches
Whitespace == {" ", "\t", "\n", "\r", "\f"}

\* str.lower() on one character, as re.IGNORECASE compares
Lower(c) ==
    LET upper == <<"A", "B", "C", "D", "E", "F", "G", "H", "I", "J", "K", "L", "M", "N", "O", "P", "Q", "R", "S", "T", "U", "V", "W", "X", "Y", "Z">>
        lower == <<"a", "b", "c", "d", "e", "f", "g", "h", "i", "j", "k", "l", "m", "n", "o", "p", "q", "r", "s", "t", "u", "v", "w", "x", "y", "z">>
    IN  IF \E i \in 1..26 : upper[i] = c
            THEN lower[CHOOSE i \in 1..26 : upper[i] = c]
            ELSE c

RECURSIVE lstrip(_)
lstrip(s) == IF s # <<>> /\ Head(s) \in Whitespace THEN lstrip(Tail(s)) ELSE s

RECURSIVE rstrip(_)
rstrip(s) ==
    IF s # <<>> /\ s[Len(s)] \in Whitespace THEN rstrip(SubSeq(s, 1, Len(s) - 1)) ELSE s

\* str.strip()
strip(s) == rstrip(lstrip(s))

\* the positions at which sub occurs in s
Occurrences(s, sub) ==
    {i \in 1..(Len(s) - Len(sub) + 1) : SubSeq(s, i, i + Len(sub) - 1) = sub}

\* s.split(sep, 1): one part when sep does not occur, else the text before
\* and the text after its first occurrence
split_once(s, sep) ==
    IF Occurrences(s, sep) = {} THEN <<s>>
    ELSE LET i == Min(Occurrences(s, sep))
         IN  <<SubSeq(s, 1, i - 1), SubSeq(s, i + Len(sep), Len(s))>>

\* " - "
Separator == <<" ", "-", " ">>

\* _parse_line: None, or the label, the code and the stripped line
parse_line(raw) ==
    LET line == strip(raw)
    IN  IF line = <<>> THEN NoneV
        ELSE IF Occurrences(line, Separator) = {} THEN NoneV
        ELSE LET parts == split_once(line, Separator)
             IN  IF Len(parts) # 2 THEN NoneV
                 ELSE LET label == strip(parts[1])
                          code == strip(parts[2])
                      IN  IF label = <<>> \/ code = <<>> THEN NoneV
                          ELSE [t |-> "parsed", label |-> label, code |-> code,
                                line |-> line]

\* the decimal digits
Digits == <<"0", "1", "2", "3", "4", "5", "6", "7", "8", "9">>

\* f"{temp}" for a two-digit temp, as characters
Format(temp) == <<Digits[(temp \div 10) + 1], Digits[(temp % 10) + 1]>>

\* a (category, key) mapping
Mapping(category, key) == [t |-> "mapping", category |-> category, key |-> key]

\* self._command_mappings.get(label): the dict built by _build_command_mappings
command_mappings(label) ==
    IF label = <<"O", "N">> THEN Mapping("power", "on")
    ELSE IF label = <<"O", "F", "F">> THEN Mapping("power", "off")
    ELSE IF \E temp \in POINTCODES_MIN_TEMP..POINTCODES_MAX_TEMP :
                label = Format(temp) \o <<"c">>
        THEN Mapping("temperature",
                     str(CHOOSE temp \in POINTCODES_MIN_TEMP..POINTCODES_MAX_TEMP :
                             label = Format(temp) \o <<"c">>))
    ELSE NoneV

\* a pattern is the words it joins with \s+; a trailing .* adds nothing to a
\* search
mode_patterns ==
    << [words |-> <<<<"M", "o", "d", "e">>, <<"c", "o", "o", "l">>>>, mapping |-> Mapping("mode", "cool")],
       [words |-> <<<<"M", "o", "d", "e">>, <<"d", "r", "y">>>>, mapping |-> Mapping("mode", "dry")],
       [words |-> <<<<"M", "o", "d", "e">>, <<"H", "e", "a", "t">>>>, mapping |-> Mapping("mode", "heat")],
       [words |-> <<<<"M", "o", "d", "e">>, <<"F", "a", "n">>>>, mapping |-> Mapping("mode", "fan_only")],
       [words |-> <<<<"M", "o", "d", "e">>, <<"a", "u", "t", "o", "m", "a", "t", "i", "c">>>>, mapping |-> Mapping("mode", "auto")],
       [words |-> <<<<"M", "o", "d", "e">>, <<"s", "l", "e", "e", "p">>>>, mapping |-> Mapping("mode", "sleep")] >>

fan_patterns ==
    << [words |-> <<<<"F", "a", "n">>, <<"s", "p", "e", "e", "d">>, <<"l", "o", "w">>>>, mapping |-> Mapping("fan_speed", "low")],
       [words |-> <<<<"F", "a", "n">>, <<"s", "p", "e", "e", "d">>, <<"m", "e", "d", "i", "u", "m">>>>, mapping |-> Mapping("fan_speed", "medium")],
       [words |-> <<<<"F", "a", "n">>, <<"s", "p", "e", "e", "d">>, <<"h", "i", "g", "h">>>>, mapping |-> Mapping("fan_speed", "high")],
       [words |-> <<<<"F", "a", "n">>, <<"s", "p", "e", "e", "d">>, <<"a", "u", "t", "o", "m", "a", "t", "i", "c">>>>, mapping |-> Mapping("fan_speed", "auto")] >>

swing_patterns ==
    << [words |-> <<<<"S", "w", "i", "n", "g">>, <<"o", "n">>>>, mapping |-> Mapping("swing", "on")],
       [words |-> <<<<"s", "w", "i", "n", "g">>, <<"o", "f", "f">>>>, mapping |-> Mapping("swing", "off")] >>

\* the word occurs in s at position i, letter case ignored
WordAt(s, i, word) ==
    /\ i + Len(word) - 1 <= Len(s)
    /\ \A j \in 1..Len(word) : Lower(s[i + j - 1]) = Lower(word[j])

\* the position after the whitespace that starts at i
RECURSIVE SkipSpace(_, _)
SkipSpace(s, i) ==
    IF i <= Len(s) /\ s[i] \in Whitespace THEN SkipSpace(s, i + 1) ELSE i

\* the words from the k-th on match at position i, \s+ between them
RECURSIVE WordsAt(_, _, _, _)
WordsAt(s, i, words, k) ==
    /\ WordAt(s, i, words[k])
    /\ \/ k = Len(words)
       \/ LET after == i + Len(words[k])
          IN  /\ SkipSpace(s, after) > after
              /\ WordsAt(s, SkipSpace(s, after), words, k + 1)

\* re.search(pattern, label, re.IGNORECASE)
search(pattern, label) == \E i \in 1..Len(label) : WordsAt(label, i, pattern.words, 1)

\* the mapping of the first pattern of the list that matches, None without one
first_match(patterns, label) ==
    LET hits == {k \in 1..Len(patterns) : search(patterns[k], label)}
    IN  IF hits = {} THEN NoneV ELSE patterns[Min(hits)].mapping

\* variant of _match_pattern_command that tries the fan-speed patterns first
match_pattern_command_fan_first(label) ==
    IF first_match(fan_patterns, label) # NoneV THEN first_match(fan_patterns, label)
    ELSE IF first_match(mode_patterns, label) # NoneV THEN first_match(mode_patterns, label)
    ELSE first_match(swing_patterns, label)

\* _match_pattern_command
match_pattern_command(label) ==
    IF first_match(mode_patterns, label) # NoneV THEN first_match(mode_patterns, label)
    ELSE IF first_match(fan_patterns, label) # NoneV THEN first_match(fan_patterns, label)
    ELSE first_match(swing_patterns, label)

\* _map_command
map_command(label) ==
    IF command_mappings(label) # NoneV THEN command_mappings(label)
    ELSE match_pattern_command(label)

\* the loop of parse_content from the i-th line on, code_set being cs
RECURSIVE ParseFrom(_, _, _, _)
ParseFrom(lines, i, cs, now) ==
    IF i > Len(lines) THEN cs
    ELSE LET parsed_line == parse_line(lines[i])
             mapping == IF parsed_line = NoneV THEN NoneV
                        ELSE map_command(parsed_line.label)
         IN  IF parsed_line = NoneV \/ mapping = NoneV
                 THEN ParseFrom(lines, i + 1, cs, now)
             ELSE ParseFrom(lines, i + 1,
                            add_command(cs, mapping.category, mapping.key,
                                        NewCommand(parsed_line.label, parsed_line.code,
                                                   parsed_line.line, now), now).cs,
                            now)

\* parse_content, the content being its lines
parse_content(lines, device_id, now) ==
    ParseFrom(lines, 1, NewCodeSet(device_id, now), now)

\* the lines of a Point-codes file

PointCodesLines ==
    { <<"O", "N", " ", "-", " ", "Q", "U", "J", "D">>,
      <<" ", " ", "O", "F", "F", " ", "-", " ", "R", "E", "V", "G", " ">>,
      <<"2", "0", "c", " ", "-", " ", "Q", "U", "J", "D">>,
      <<"M", "o", "d", "e", " ", "c", "o", "o", "l", " ", "-", " ", "Q", "U", "J", "D">>,
      <<"O", "N", " ", "Q", "U", "J", "D">>,
      <<"O", "N", "-", "Q", "U", "J", "D">>,
      <<"O", "N", " ", "-", " ", "Q", "U", "J", "D", " ", "-", " ", "R", "E", "V", "G">>,
      <<"O", "F", "F", " ", "-", " ", "Q", "U", "J", "D", " ", "-", " ", "R", "E", "V", "G", " ", "-", " ", "Q", "U", "J", "D">>,
      <<"O", "N", " ", "-", " ">>,
      <<" ", "-", " ", "Q", "U", "J", "D">>,
      <<" ", " ", " ">>,
      <<>>,
      <<"H", "e", "l", "l", "o", " ", "-", " ", "Q", "U", "J", "D">>,
      <<"O", "N", " ", "-", " ", "R", "E", "V", "G">> }

\* the labels of the lines
PointCodesLabels ==
    { <<"O", "N">>,
      <<"O", "F", "F">>,
      <<"o", "n">>,
      <<"O", "n">>,
      <<"O", "N", "N">>,
      <<"1", "7", "c">>,
      <<"2", "0", "c">>,
      <<"3", "0", "c">>,
      <<"1", "6", "c">>,
      <<"3", "1", "c">>,
      <<"1", "7", "C">>,
      <<"7", "c">>,
      <<"M", "o", "d", "e", " ", "c", "o", "o", "l">>,
      <<"M", "O", "D", "E", " ", "C", "O", "O", "L">>,
      <<"m", "o", "d", "e", " ", " ", "c", "o", "o", "l">>,
      <<"M", "o", "d", "e", "\t", "d", "r", "y">>,
      <<"M", "o", "d", "e", "c", "o", "o", "l">>,
      <<"M", "o", "d", "e", " ", "H", "e", "a", "t">>,
      <<"m", "o", "d", "e", " ", "h", "e", "a", "t">>,
      <<"M", "o", "d", "e", " ", "F", "a", "n">>,
      <<"M", "o", "d", "e", " ", "a", "u", "t", "o", "m", "a", "t", "i", "c">>,
      <<"M", "o", "d", "e", " ", "a", "u", "t", "o", "m", "a", "t", "i", "c", " ", "2">>,
      <<"M", "o", "d", "e", " ", "s", "l", "e", "e", "p", " ", "1">>,
      <<"M", "o", "d", "e">>,
      <<"F", "a", "n", " ", "s", "p", "e", "e", "d", " ", "l", "o", "w">>,
      <<"f", "a", "n", " ", "s", "p", "e", "e", "d", " ", "M", "E", "D", "I", "U", "M">>,
      <<"F", "a", "n", " ", "s", "p", "e", "e", "d", " ", "h", "i", "g", "h">>,
      <<"F", "a", "n", " ", "s", "p", "e", "e", "d", " ", "a", "u", "t", "o", "m", "a", "t", "i", "c">>,
      <<"F", "a", "n", " ", "s", "p", "e", "e", "d">>,
      <<"S", "w", "i", "n", "g", " ", "o", "n">>,
      <<"S", "W", "I", "N", "G", " ", "O", "F", "F">>,
      <<"s", "w", "i", "n", "g", " ", "o", "n">>,
      <<"S", "w", "i", "n", "g">>,
      <<"M", "o", "d", "e", " ", "c", "o", "o", "l", " ", "F", "a", "n", " ", "s", "p", "e", "e", "d", " ", "l", "o", "w">>,
      <<"F", "a", "n", " ", "s", "p", "e", "e", "d", " ", "l", "o", "w", " ", "M", "o", "d", "e", " ", "d", "r", "y">>,
      <<"M", "o", "d", "e", " ", "F", "a", "n", " ", "s", "p", "e", "e", "d", " ", "h", "i", "g", "h">>,
      <<"S", "w", "i", "n", "g", " ", "o", "n", " ", "F", "a", "n", " ", "s", "p", "e", "e", "d", " ", "m", "e", "d", "i", "u", "m">>,
      <<"M", "o", "d", "e", " ", "d", "r", "y", " ", "M", "o", "d", "e", " ", "c", "o", "o", "l">>,
      <<"s", "w", "i", "n", "g", " ", "o", "f", "f", " ", "M", "o", "d", "e", " ", "s", "l", "e", "e", "p">>,
      <<"X", "M", "o", "d", "e", " ", "c", "o", "o", "l", "Y">>,
      <<"H", "e", "l", "l", "o">> }

\* the most lines a content of the model has
MaxLines == 2

\* the contents handed to parse_content
PointCodesContents ==
    UNION {[1..n -> PointCodesLines] : n \in 1..MaxLines}

\* parser._parse_line(line)
ParseLine(line) ==
    /\ last' = Call("_parse_line", "", "", "", [t |-> "line", line |-> line],
                    parse_line(line))
    /\ UNCHANGED <<code_sets, storage, clock>>
    /\ UNCHANGED dm_vars
    /\ UNCHANGED gen_vars
    /\ UNCHANGED io_vars
    /\ UNCHANGED obj_vars
    /\ UNCHANGED disc_vars

\* parser._map_command(label)
MapCommand(label) ==
    /\ last' = Call("_map_command", "", "", "", [t |-> "label", label |-> label],
                    map_command(label))
    /\ UNCHANGED <<code_sets, storage, clock>>
    /\ UNCHANGED dm_vars
    /\ UNCHANGED gen_vars
    /\ UNCHANGED io_vars
    /\ UNCHANGED obj_vars
    /\ UNCHANGED disc_vars

\* parser.parse_content(content, device_id, device_name)
ParseContent(device_id, lines) ==
    /\ last' = Call("parse_content", device_id, "", "", [t |-> "content", lines |-> lines],
                    parse_content(lines, device_id, clock))
    /\ UNCHANGED <<code_sets, storage, clock>>
    /\ UNCHANGED dm_vars
    /\ UNCHANGED gen_vars
    /\ UNCHANGED io_vars
    /\ UNCHANGED obj_vars
    /\ UNCHANGED disc_vars

\* the lines of text: cut at every character of breaks, "\r\n" counting as
\* one, each line with a "\n" for its end when keepends; no line after a
\* final break
RECURSIVE SplitAt(_, _, _, _, _)
SplitAt(text, i, current, breaks, keepends) ==
    IF i > Len(text) THEN (IF current = <<>> THEN <<>> ELSE <<current>>)
    ELSE IF text[i] \in breaks
        THEN <<IF keepends THEN Append(current, "\n") ELSE current>>
             \o SplitAt(text,
                        IF text[i] = "\r" /\ i < Len(text) /\ text[i + 1] = "\n"
                            THEN i + 2 ELSE i + 1,
                        <<>>, breaks, keepends)
    ELSE SplitAt(text, i + 1, Append(current, text[i]), breaks, keepends)

\* str.splitlines(): the line boundaries of the model's alphabet are "\n",
\* "\r", "\r\n" and the form feed (Python also cuts at \v, \x1c-\x1e, \x85,
\* \u2028 and \u2029)
splitlines(text) == SplitAt(text, 1, <<>>, {"\n", "\r", "\f"}, FALSE)

\* the lines `for line in f` yields for a file opened in text mode:
\* universal newlines, each line with its end as "\n"
file_lines(text) == SplitAt(text, 1, <<>>, {"\n", "\r"}, TRUE)

\* a Point-codes file and its text
PointCodesFile(text) == [t |-> "pointcodes", text |-> text]

\* parser.parse_file(file_path, device_id, device_name): None when there is
\* no file, else the code set of the lines of the file
parse_file(file, device_id, now) ==
    IF file = Absent THEN NoneV
    ELSE CHOOSE out \in
             { IF validate_commands(cs) = Raised THEN NoneV ELSE cs :
               cs \in {ParseFrom(file_lines(file.text), 1,
                                 NewCodeSet(device_id, now), now)} } : TRUE

\* the texts parsed both ways: one or two lines, each ended or separated by
\* a line feed, a carriage return, both, or a form feed
TextLines ==
    { <<"O", "N", " ", "-", " ", "Q", "U", "J", "D">>,
      <<"O", "F", "F", " ", "-", " ", "R", "E", "V", "G">>,
      <<"O", "N", " ", "-", " ", "R", "E", "V", "G">>,
      <<"O", "N", " ", "Q", "U", "J", "D">> }

LineEnds == {<<"\n">>, <<"\r">>, <<"\r", "\n">>, <<"\f">>}

PointCodesTexts ==
    {first \o end : first \in TextLines, end \in LineEnds}
    \cup {first \o end \o second :
             first \in TextLines, end \in LineEnds, second \in TextLines}

\* parser.parse_content(content, device_id, device_name) on a text
ParseContentText(device_id, text) ==
    /\ last' = Call("parse_content(text)", device_id, "", "",
                    [t |-> "text", text |-> text],
                    parse_content(splitlines(text), device_id, clock))
    /\ UNCHANGED <<code_sets, storage, clock>>
    /\ UNCHANGED dm_vars
    /\ UNCHANGED gen_vars
    /\ UNCHANGED io_vars
    /\ UNCHANGED obj_vars
    /\ UNCHANGED disc_vars

\* parser.parse_file(file_path, device_id, device_name) on a file holding the
\* text parse_content was last given
ParseFile(device_id, file) ==
    /\ last.op = "parse_content(text)"
    /\ last.dev = device_id
    /\ file.text = last.arg.text
    /\ last' = Call("parse_file", device_id, "", "",
                    [t |-> "file", text |-> file.text, from_content |-> last.ret],
                    parse_file(file, device_id, clock))
    /\ UNCHANGED <<code_sets, storage, clock>>
    /\ UNCHANGED dm_vars
    /\ UNCHANGED gen_vars
    /\ UNCHANGED io_vars
    /\ UNCHANGED obj_vars
    /\ UNCHANGED disc_vars

InitParse ==
    /\ code_sets = EmptyDict
    /\ storage = [d \in Devices |-> Absent]
    /\ clock = 0
    /\ NoLearning
    /\ last = NoCall
    /\ NoGenerator
    /\ NoFileIo
    /\ NoObjects
    /\ NoDiscovery

NextParse ==
    \/ \E line \in PointCodesLines : ParseLine(line)
    \/ \E label \in PointCodesLabels : MapCommand(label)
    \/ \E lines \in PointCodesContents : ParseContent("dev1", lines)
    \/ \E text \in PointCodesTexts : ParseContentText("dev1", text)
    \/ \E text \in PointCodesTexts : ParseFile("dev1", PointCodesFile(text))

SpecParse == InitParse /\ [][NextParse]_vars

----------------------------------------------------------------------------
(* Properties of the parser, stated over SpecParse *)

\* the number of " - " separators of a line
SeparatorCount(line) == Cardinality(Occurrences(line, Separator))

\* the commands of a code set
AllCommands(cs) ==
    UNION {Range(cs[category].d) : category \in SixCategories}

\* C19: a line becomes a command only if it has exactly one " - " separator:
\* _parse_line returns nothing for a line with none or with two or more, and
\* every command of a parsed code set comes from a line with exactly one.
C19_ExactlyOneSeparator ==
    /\ last.op = "_parse_line" /\ SeparatorCount(last.arg.line) # 1 =>
          last.ret = NoneV
    /\ last.op = "parse_content" =>
          \A command \in AllCommands(last.ret) : SeparatorCount(command.raw_data) = 1

\* a pattern of one of the three lists matches the label
Matches(patterns, label) == \E k \in 1..Len(patterns) : search(patterns[k], label)

\* C20: ON, OFF and Tc (T in 17..30) are classified exactly; any other label
\* gets the mapping of the first pattern that matches it, letter case
\* ignored, the mode patterns coming before the fan-speed patterns before the
\* swing patterns; a label that matches nothing, such as 16c and 31c, has no
\* classification.
C20_LabelClassification ==
    last.op = "_map_command" =>
        LET label == last.arg.label
            exact == \/ label \in {<<"O", "N">>, <<"O", "F", "F">>}
                     \/ \E T \in 17..30 : label = Format(T) \o <<"c">>
        IN  /\ label = <<"O", "N">> => last.ret = Mapping("power", "on")
            /\ label = <<"O", "F", "F">> => last.ret = Mapping("power", "off")
            /\ \A T \in 17..30 :
                  label = Format(T) \o <<"c">> => last.ret = Mapping("temperature", str(T))
            /\ ~ exact =>
                  last.ret = first_match(mode_patterns \o fan_patterns \o swing_patterns,
                                         label)
            /\ label \in {<<"1", "6", "c">>, <<"3", "1", "c">>} => last.ret = NoneV

\* a label that matches a mode pattern and a fan-speed pattern was classified
\* as a mode command
C20_Witness ==
    /\ last.op = "_map_command"
    /\ Matches(mode_patterns, last.arg.label)
    /\ Matches(fan_patterns, last.arg.label)
    /\ last.ret # NoneV
    /\ last.ret.category = "mode"

\* the text before and the text after the separator of a line that has one
LabelOf(line) == strip(SubSeq(strip(line), 1, Min(Occurrences(strip(line), Separator)) - 1))
CodeOf(line) ==
    strip(SubSeq(strip(line), Min(Occurrences(strip(line), Separator)) + Len(Separator),
                 Len(strip(line))))

\* a line that is neither blank nor malformed nor unclassifiable: it has the
\* shape LABEL - CODE with exactly one separator and its label is classified
WellFormed(line) ==
    /\ SeparatorCount(strip(line)) = 1
    /\ LabelOf(line) # <<>>
    /\ CodeOf(line) # <<>>
    /\ map_command(LabelOf(line)) # NoneV

\* the (category, key) pairs the well-formed lines are classified as
ClassifiedPairs(lines) ==
    { <<map_command(LabelOf(lines[i])).category, map_command(LabelOf(lines[i])).key>> :
        i \in {i \in 1..Len(lines) : WellFormed(lines[i])} }

\* the code of the last well-formed line classified as the pair
LastCode(lines, pair) ==
    LET at == {i \in 1..Len(lines) :
                  /\ WellFormed(lines[i])
                  /\ map_command(LabelOf(lines[i])).category = pair[1]
                  /\ map_command(LabelOf(lines[i])).key = pair[2]}
    IN  CodeOf(lines[Max(at)])

\* the (category, key) pairs of a code set and the code each holds
PairsOf(cs) ==
    {<<category, key>> \in SixCategories \X Range(KeyOrder) : key \in DOMAIN cs[category].d}

\* C21: parse_content returns the code set of the same text without its
\* blank, malformed and unclassifiable lines: its pairs are the pairs the
\* well-formed lines are classified as, each holding the code of the last
\* such line, and get_command_count is the number of these pairs.
C21_BadLinesSkipped ==
    last.op = "parse_content" =>
        LET lines == last.arg.lines
            kept == parse_content(SelectSeq(lines, WellFormed), last.dev, clock)
        IN  /\ last.ret # NoneV
            /\ PairsOf(last.ret) = PairsOf(kept)
            /\ PairsOf(last.ret) = ClassifiedPairs(lines)
            /\ \A pair \in PairsOf(last.ret) :
                  /\ last.ret[pair[1]].d[pair[2]].code = kept[pair[1]].d[pair[2]].code
                  /\ last.ret[pair[1]].d[pair[2]].code = LastCode(lines, pair)
            /\ get_command_count(last.ret) = Ok(Cardinality(ClassifiedPairs(lines)))

----------------------------------------------------------------------------
(* DeviceManager: sending and importing *)

\* bool(value) of what get_command can return: None, an empty str and an
\* empty dict are false, an IRCommand is true
truthy(value) ==
    IF value = NoneV THEN FALSE
    ELSE IF value.t = "str" THEN value.s # ""
    ELSE IF value.t = "dict" THEN DOMAIN value.d # {}
    ELSE TRUE

\* how the MQTT publish service answers
PublishIo == {"ok", "publish_fails"}

\* variant of async_send_ir_command without the test of line 169
send_ir_command_unvalidated(cache, store, device_id, category, key, io, now) ==
    CHOOSE out \in
        { IF loaded.ret = NoneV
              THEN [ret |-> FALSE, code_sets |-> loaded.code_sets, published |-> NoneV]
          ELSE IF ~ truthy(get_command(loaded.ret, category, key))
              THEN [ret |-> FALSE, code_sets |-> loaded.code_sets, published |-> NoneV]
          ELSE IF get_command(loaded.ret, category, key).t # "cmd"
              THEN [ret |-> FALSE, code_sets |-> loaded.code_sets, published |-> NoneV]
          ELSE IF io = "publish_fails"
              THEN [ret |-> FALSE, code_sets |-> loaded.code_sets, published |-> NoneV]
          ELSE [ ret |-> TRUE, code_sets |-> loaded.code_sets,
                 published |-> [t |-> "payload",
                                ir_code_to_send |->
                                    get_command(loaded.ret, category, key).c.code] ] :
          loaded \in {async_load_device(cache, store, device_id, now)} } : TRUE

\* async_send_ir_command: [ret, code_sets, published], published being the
\* MQTT payload sent or None. command.validated raises AttributeError on a
\* value that is no IRCommand, which the except clause turns into False.
send_ir_command(cache, store, device_id, category, key, io, now) ==
    CHOOSE out \in
        { IF loaded.ret = NoneV
              THEN [ret |-> FALSE, code_sets |-> loaded.code_sets, published |-> NoneV]
          ELSE IF ~ truthy(get_command(loaded.ret, category, key))
              THEN [ret |-> FALSE, code_sets |-> loaded.code_sets, published |-> NoneV]
          ELSE IF get_command(loaded.ret, category, key).t # "cmd"
              THEN [ret |-> FALSE, code_sets |-> loaded.code_sets, published |-> NoneV]
          ELSE IF ~ get_command(loaded.ret, category, key).c.validated
              THEN [ret |-> FALSE, code_sets |-> loaded.code_sets, published |-> NoneV]
          ELSE IF io = "publish_fails"
              THEN [ret |-> FALSE, code_sets |-> loaded.code_sets, published |-> NoneV]
          ELSE [ ret |-> TRUE, code_sets |-> loaded.code_sets,
                 published |-> [t |-> "payload",
                                ir_code_to_send |->
                                    get_command(loaded.ret, category, key).c.code] ] :
          loaded \in {async_load_device(cache, store, device_id, now)} } : TRUE

\* device_manager.async_send_ir_command(device_id, category, key, mqtt_topic)
SendIrCommand(device_id, category, key, io) ==
    /\ \E r \in {send_ir_command(code_sets, storage, device_id, category, key, io, clock)} :
           /\ code_sets' = r.code_sets
           /\ last' = Call("async_send_ir_command", device_id, category, key,
                           [t |-> "send", published |-> r.published], r.ret)
    /\ UNCHANGED <<storage, clock>>
    /\ UNCHANGED dm_vars
    /\ UNCHANGED gen_vars
    /\ UNCHANGED io_vars
    /\ UNCHANGED obj_vars
    /\ UNCHANGED disc_vars

\* the values of an import document's "commands": a code (str), a
\* {name, code, ...} object, anything else
SimpleEntry(code) == [t |-> "code", code |-> code]
ComplexEntry(doc) == [t |-> "doc", doc |-> doc]
OtherEntry == [t |-> "other"]

\* an import file holding the (category, key, value) entries in document order
ImportFile(entries) == [t |-> "import", entries |-> entries]

\* the loop of lines 378-395 from the i-th entry on: acc is
\* [cs, imported_count, raised]
RECURSIVE ImportFrom(_, _, _, _)
ImportFrom(entries, i, acc, now) ==
    IF i > Len(entries) \/ acc.raised THEN acc
    ELSE CHOOSE out \in
             { ImportFrom(entries, i + 1, next, now) :
               next \in
                   { IF entries[i].data.t = "other" THEN acc
                     ELSE IF entries[i].data.t = "doc"
                             /\ IRCommand_from_dict(entries[i].data.doc, now) = Raised
                         THEN [acc EXCEPT !.raised = TRUE]
                     ELSE CHOOSE after \in
                              { [ cs |-> r.cs,
                                  imported_count |-> IF r.ret THEN acc.imported_count + 1
                                                     ELSE acc.imported_count,
                                  raised |-> FALSE ] :
                                r \in { add_command(
                                            acc.cs, entries[i].category, entries[i].key,
                                            IF entries[i].data.t = "code"
                                                THEN NewCommand(<<entries[i].category,
                                                                  entries[i].key>>,
                                                                entries[i].data.code,
                                                                "imported", now)
                                                ELSE IRCommand_from_dict(entries[i].data.doc,
                                                                         now).v,
                                            now) } } : TRUE } } : TRUE

\* async_import_codes with file_format = "json":
\* [ret, code_sets, storage, imported_count]. The code set loaded is the
\* cached object, so what the loop adds is in the cache whatever follows.
import_codes(cache, store, device_id, file, io, now) ==
    IF file = Absent
        THEN [ret |-> FALSE, code_sets |-> cache, storage |-> store, imported_count |-> 0]
    ELSE CHOOSE out \in
        { IF file.t # "import"
              THEN [ ret |-> FALSE, code_sets |-> loaded.code_sets, storage |-> store,
                     imported_count |-> 0 ]
          ELSE CHOOSE done \in
              { IF acc.raised \/ acc.imported_count = 0
                    THEN [ ret |-> FALSE,
                           code_sets |-> IF loaded.ret = NoneV THEN loaded.code_sets
                                         ELSE DictSet(loaded.code_sets, device_id, acc.cs),
                           storage |-> store,
                           imported_count |-> acc.imported_count ]
                ELSE CHOOSE saved \in
                    { [ ret |-> TRUE,
                        code_sets |-> registered,
                        storage |-> async_save_device(registered, store, device_id,
                                                      io).storage,
                        imported_count |-> acc.imported_count ] :
                      registered \in
                          { add_device_codes(
                                IF loaded.ret = NoneV THEN loaded.code_sets
                                ELSE DictSet(loaded.code_sets, device_id, acc.cs),
                                acc.cs).code_sets } } : TRUE :
                acc \in
                    { ImportFrom(file.entries, 1,
                                 [ cs |-> IF loaded.ret # NoneV THEN loaded.ret
                                          ELSE IRCodeSet(StrV(device_id),
                                                         StrV("Imported_" \o device_id),
                                                         StrV("air_conditioner"),
                                                         StrV("MOES"), StrV("UFO-R11"),
                                                         NoneV, now),
                                   imported_count |-> 0, raised |-> FALSE ],
                                 now) } } : TRUE :
          loaded \in {async_load_device(cache, store, device_id, now)} } : TRUE

\* device_manager.async_import_codes(device_id, file_path, "json")
ImportCodes(device_id, file, io) ==
    /\ \E r \in {import_codes(code_sets, storage, device_id, file, io, clock)} :
           /\ code_sets' = r.code_sets
           /\ storage' = r.storage
           /\ last' = Call("async_import_codes", device_id, "", "",
                           [ t |-> "import", file |-> file,
                             imported_count |-> r.imported_count,
                             before |-> async_load_device(code_sets, storage, device_id,
                                                          clock).ret ],
                           r.ret)
    /\ UNCHANGED clock
    /\ UNCHANGED dm_vars
    /\ UNCHANGED gen_vars
    /\ UNCHANGED io_vars
    /\ UNCHANGED obj_vars
    /\ UNCHANGED disc_vars

----------------------------------------------------------------------------
(* SpecDevice: a DeviceManager sending and importing over two devices *)

Entry(category, key, data) == [category |-> category, key |-> key, data |-> data]

\* the import files: one code; an object whose stored flag disagrees with
\* its code, and a code; a category that is no attribute; the instance
\* __dict__ as category; an object without its code after a good entry; a
\* value that is neither a str nor an object; a missing file; a file that is
\* no JSON
ImportFiles ==
    { ImportFile(<<Entry("power", "on", SimpleEntry(CodeDEF))>>),
      ImportFile(<<Entry("power", "on", ComplexEntry(StaleCommandDoc)),
                   Entry("mode", "cool", SimpleEntry(CodeABC))>>),
      ImportFile(<<Entry("bogus", "on", SimpleEntry(CodeABC))>>),
      ImportFile(<<Entry("__dict__", "power", SimpleEntry(CodeABC))>>),
      ImportFile(<<Entry("power", "off", SimpleEntry(CodeABC)),
                   Entry("power", "on", ComplexEntry([name |-> "ON"]))>>),
      ImportFile(<<Entry("power", "off", OtherEntry)>>),
      Absent,
      Garbage }

\* the (category, key) pairs sent
SendSlots ==
    { <<"power", "on">>, <<"power", "off">>, <<"mode", "cool">>,
      <<"__dict__", "device_id">>, <<"__dict__", "power">> }

DeviceFiles(device_id) ==
    IF device_id = "dev1"
        THEN {Absent, JsonFile(StoredDoc(device_id)), JsonFile(StaleDoc(device_id))}
        ELSE {Absent, JsonFile(StoredDoc(device_id))}

InitDevice ==
    /\ code_sets = EmptyDict
    /\ \E f1 \in DeviceFiles("dev1") : \E f2 \in DeviceFiles("dev2") :
          storage = ("dev1" :> f1) @@ ("dev2" :> f2)
    /\ clock = 0
    /\ NoLearning
    /\ last = NoCall
    /\ NoGenerator
    /\ NoFileIo
    /\ NoObjects
    /\ NoDiscovery

NextDevice ==
    \/ \E d \in Devices : \E slot \in SendSlots : \E io \in PublishIo :
          SendIrCommand(d, slot[1], slot[2], io)
    \/ \E file \in ImportFiles : ImportCodes("dev1", file, "ok")
    \/ ImportCodes("dev2", ImportFile(<<Entry("power", "on", SimpleEntry(CodeDEF))>>), "ok")
    \/ AddCommand("dev1", "__dict__", "device_id",
                  NewCommand("learned", CodeDEF, "learned", clock))

SpecDevice == InitDevice /\ [][NextDevice]_vars

----------------------------------------------------------------------------
(* Properties of sending and importing, stated over SpecDevice *)

\* C22: a code is published only when the device's code set holds a
\* validated command at (category, key), and the payload is that command's
\* code; when the code set, the command or its validity is missing the call
\* returns false and publishes nothing.
C22_SendOnlyValidated ==
    last.op = "async_send_ir_command" =>
        LET cs == DictGet(code_sets, last.dev, NoneV)
            valid == /\ cs # NoneV
                     /\ Holds(cs, last.category, last.key)
                     /\ cs[last.category].d[last.key].validated
        IN  /\ last.arg.published # NoneV =>
                  /\ valid
                  /\ last.arg.published.ir_code_to_send = cs[last.category].d[last.key].code
            /\ ~ valid => last.ret = FALSE /\ last.arg.published = NoneV

\* the entries of an import file that name a pair of the six categories
NamedEntries(file) ==
    {i \in 1..Len(file.entries) :
        /\ file.entries[i].category \in SixCategories
        /\ file.entries[i].data.t \in {"code", "doc"}}

\* the code an entry gives
EntryCode(entry) ==
    IF entry.data.t = "code" THEN entry.data.code ELSE entry.data.doc.code

\* C23: after a successful import every pair the document names under the
\* six categories holds the document's code (the last one given), the
\* commands the document does not name are unchanged, and the imported count
\* is the number of these add attempts.
C23_ImportMerges ==
    last.op = "async_import_codes" /\ last.ret = TRUE =>
        LET file == last.arg.file
            before == last.arg.before
            after == DictGet(code_sets, last.dev, NoneV)
            named == {<<file.entries[i].category, file.entries[i].key>> :
                         i \in NamedEntries(file)}
        IN  /\ after # NoneV
            /\ \A i \in NamedEntries(file) :
                  /\ Holds(after, file.entries[i].category, file.entries[i].key)
                  /\ after[file.entries[i].category].d[file.entries[i].key].code =
                        EntryCode(file.entries[
                            Max({j \in NamedEntries(file) :
                                    /\ file.entries[j].category = file.entries[i].category
                                    /\ file.entries[j].key = file.entries[i].key})])
            /\ before # NoneV /\ after # NoneV =>
                  \A pair \in (SixCategories \X Range(KeyOrder)) \ named :
                      Holds(before, pair[1], pair[2]) =>
                          /\ Holds(after, pair[1], pair[2])
                          /\ after[pair[1]].d[pair[2]] = before[pair[1]].d[pair[2]]
            /\ last.arg.imported_count = Cardinality(NamedEntries(file))

----------------------------------------------------------------------------
(* SmartIR generator: validate_smartir_config *)

\* a JSON number
NumV(n) == [t |-> "num", n |-> n]

\* the fields validate_smartir_config requires, in its order (lines 349-353)
required_fields ==
    <<"manufacturer", "supportedModels", "commandsEncoding", "minTemperature",
      "maxTemperature", "precision", "operationModes", "commands">>

\* the messages of the report
MissingField(field) == "Missing required field: " \o field
MissingOff == "Missing power off command"
MissingTemperature == "Missing temperature commands"
TemperatureNotDict == "Temperature commands must be a dictionary"
MinNotLess == "minTemperature must be less than maxTemperature"
UnusualRange == "Temperature range seems unusual"
ModeNotDict(mode) == "Temperature commands for mode " \o mode \o " should be a dictionary"

\* the modes of a temperature mapping whose value is no mapping, in the
\* order of HvacModeOrder
ModeWarnings(temps) ==
    LET bad == SelectSeq(HvacModeOrder,
                         LAMBDA mode : mode \in DOMAIN temps /\ temps[mode].t # "dict")
    IN  [i \in 1..Len(bad) |-> ModeNotDict(bad[i])]

\* generator.validate_smartir_config(config): the report, or Raised.
\* "off" not in commands raises TypeError on a value that is no container
\* (line 365), min_temp >= max_temp on values that are not ordered (line 388).
validate_smartir_config(config) ==
    LET present(field) == field \in DOMAIN config
        missing == SelectSeq(required_fields, LAMBDA field : ~ present(field))
        field_errors == [i \in 1..Len(missing) |-> MissingField(missing[i])]
        commands == config["commands"]
        min_temp == config["minTemperature"]
        max_temp == config["maxTemperature"]
    IN  IF present("commands") /\ commands.t # "dict" THEN Raised
        ELSE IF present("minTemperature") /\ present("maxTemperature")
                /\ (min_temp.t # "num" \/ max_temp.t # "num") THEN Raised
        ELSE LET has(key) == present("commands") /\ key \in DOMAIN commands.d
                 command_errors ==
                     IF ~ present("commands") THEN <<>>
                     ELSE (IF ~ has("off") THEN <<MissingOff>> ELSE <<>>)
                          \o (IF ~ has("temperature") \/ ~ truthy(commands.d["temperature"])
                                  THEN <<MissingTemperature>> ELSE <<>>)
                          \o (IF has("temperature") /\ commands.d["temperature"].t # "dict"
                                  THEN <<TemperatureNotDict>> ELSE <<>>)
                 command_warnings ==
                     IF has("temperature") /\ commands.d["temperature"].t = "dict"
                         THEN ModeWarnings(commands.d["temperature"].d)
                         ELSE <<>>
                 ranged == present("minTemperature") /\ present("maxTemperature")
                 range_errors ==
                     IF ranged /\ min_temp.n >= max_temp.n THEN <<MinNotLess>> ELSE <<>>
                 range_warnings ==
                     IF ranged /\ (min_temp.n < 0 \/ max_temp.n > 50)
                         THEN <<UnusualRange>> ELSE <<>>
             IN  [ valid |-> field_errors \o command_errors \o range_errors = <<>>,
                   errors |-> field_errors \o command_errors \o range_errors,
                   warnings |-> command_warnings \o range_warnings ]

\* generator.validate_smartir_config(config); the document is only read
ValidateSmartirConfig(config) ==
    /\ last' = Call("validate_smartir_config", "", "", "",
                    [t |-> "validate", config |-> config, after |-> config],
                    validate_smartir_config(config))
    /\ UNCHANGED <<code_sets, storage, clock>>
    /\ UNCHANGED dm_vars
    /\ UNCHANGED gen_vars
    /\ UNCHANGED io_vars
    /\ UNCHANGED obj_vars
    /\ UNCHANGED disc_vars

\* the dict async_generate_smartir_config returns, as the values the
\* validator reads: numbers, strings and dicts
config_dict(config) ==
    [ field \in DOMAIN config |->
        IF field \in {"minTemperature", "maxTemperature"} THEN NumV(config[field])
        ELSE IF field = "commands"
            THEN DictV([ key \in DOMAIN config.commands |->
                           IF key \in {"off", "on"} THEN StrV(config.commands[key])
                           ELSE IF key = "temperature"
                               THEN DictV([mode \in DOMAIN config.commands.temperature |->
                                              DictV(config.commands.temperature[mode])])
                           ELSE DictV(config.commands[key]) ])
        ELSE config[field] ]

\* async_export_device_smartir at time now:
\* [ret, gen_code_sets, export_files, config]. The document is generated
\* (and written when a path is given), then validated.
export_device_smartir(gen_cache, store, files, device_id, output_path, io, now) ==
    CHOOSE out \in
        { [ ret |-> IF r.ret = NoneV THEN FALSE
                    ELSE CHOOSE valid \in
                        { IF validation = Raised THEN FALSE ELSE validation.valid :
                          validation \in
                              {validate_smartir_config(config_dict(r.ret.config))} } : TRUE,
            gen_code_sets |-> r.gen_code_sets,
            export_files |-> r.export_files,
            config |-> r.ret ] :
          r \in { generate_smartir_config(gen_cache, store, files, device_id,
                                          output_path, io, now) } } : TRUE

\* generator.async_export_device_smartir(device_id, output_path)
ExportDeviceSmartir(device_id, output_path, io) ==
    /\ \E r \in {export_device_smartir(gen_code_sets, storage, export_files,
                                        device_id, output_path, io, clock)} :
           /\ gen_code_sets' = r.gen_code_sets
           /\ export_files' = r.export_files
           /\ last' = Call("async_export_device_smartir", device_id, "", "",
                           [t |-> "export", output_path |-> output_path,
                            config |-> r.config],
                           r.ret)
    /\ UNCHANGED <<code_sets, storage, clock>>
    /\ UNCHANGED dm_vars
    /\ UNCHANGED io_vars
    /\ UNCHANGED obj_vars
    /\ UNCHANGED disc_vars

\* SpecExport: a generator over the persisted code sets of SpecGen, its
\* documents generated and exported
NextExport ==
    \/ \E d \in Devices : GenerateSmartirConfig(d, NoneV, "ok")
    \/ \E d \in Devices : \E io \in ExportIo : ExportDeviceSmartir(d, OutputDir, io)
    \/ \E d \in Devices : ExportDeviceSmartir(d, NoneV, "ok")

SpecExport == InitGen /\ [][NextExport]_vars

----------------------------------------------------------------------------
(* SpecValidate: the validator over a bounded set of documents *)

\* a field the document does not have
Missing == [t |-> "missing"]

\* the values of "commands": none, null, and the objects with or without
\* "off" and with a temperature entry that is missing, empty, a mapping of
\* one mode to its payloads, a mapping of one mode to a string, or a string
TemperatureValues ==
    { Missing, DictV(EmptyDict), DictV("cool" :> DictV("20" :> StrV("QUJD"))),
      DictV("cool" :> StrV("QUJD")), StrV("QUJD") }

CommandsDoc(off, temperature) ==
    DictV([key \in (IF off THEN {"off"} ELSE {})
                   \cup (IF temperature = Missing THEN {} ELSE {"temperature"}) |->
              IF key = "off" THEN StrV("REVG") ELSE temperature])

CommandsValues ==
    {Missing, NoneV} \cup {CommandsDoc(off, temperature) :
                              off \in BOOLEAN, temperature \in TemperatureValues}

MinValues == {Missing, NoneV, NumV(0 - 1), NumV(16), NumV(30)}
MaxValues == {Missing, NumV(16), NumV(30), NumV(51)}

\* the document with the given values, a Missing one leaving its field out;
\* the four other required fields are there or not together with "precision"
ConfigOf(manufacturer, precision, commands, min_temp, max_temp) ==
    LET value(field) ==
            CASE field = "manufacturer" -> manufacturer
              [] field = "commands" -> commands
              [] field = "minTemperature" -> min_temp
              [] field = "maxTemperature" -> max_temp
              [] OTHER -> precision
    IN  [field \in {f \in Range(required_fields) : value(f) # Missing} |-> value(field)]

ValidateConfigs ==
    { ConfigOf(manufacturer, precision, commands, min_temp, max_temp) :
        manufacturer \in {Missing, StrV("MOES")},
        precision \in {Missing, NumV(1)},
        commands \in CommandsValues,
        min_temp \in MinValues,
        max_temp \in MaxValues }

InitValidate ==
    /\ code_sets = EmptyDict
    /\ storage = [d \in Devices |-> Absent]
    /\ clock = 0
    /\ NoLearning
    /\ last = NoCall
    /\ NoGenerator
    /\ NoFileIo
    /\ NoObjects
    /\ NoDiscovery

NextValidate ==
    \E config \in ValidateConfigs : ValidateSmartirConfig(config)

SpecValidate == InitValidate /\ [][NextValidate]_vars

----------------------------------------------------------------------------
(* Properties of the validator, stated over SpecValidate *)

ValidateCalled == last.op = "validate_smartir_config"

\* what the statement calls an error of the document
LacksOff(config) ==
    "commands" \in DOMAIN config /\
        (config["commands"].t = "dict" => "off" \notin DOMAIN config["commands"].d)

LacksTemperature(config) ==
    "commands" \in DOMAIN config /\
        (config["commands"].t = "dict" =>
            \/ "temperature" \notin DOMAIN config["commands"].d
            \/ ~ truthy(config["commands"].d["temperature"]))

RangeGiven(config) ==
    /\ {"minTemperature", "maxTemperature"} \subseteq DOMAIN config
    /\ config["minTemperature"].t = "num"
    /\ config["maxTemperature"].t = "num"

\* C24: the validator returns a report that is valid exactly when it lists
\* no error; a missing required field, commands without off or without
\* temperature commands, and a minimum not below the maximum are each listed
\* as an error; a range outside 0..50 is a warning and no error; the document
\* is left as it was.
C24_ValidationReport ==
    ValidateCalled =>
        LET config == last.arg.config
            report == last.ret
        IN  /\ report # Raised
            /\ report.valid <=> report.errors = <<>>
            /\ \A i \in 1..Len(required_fields) :
                  required_fields[i] \notin DOMAIN config =>
                      MissingField(required_fields[i]) \in Range(report.errors)
            /\ LacksOff(config) => MissingOff \in Range(report.errors)
            /\ LacksTemperature(config) => MissingTemperature \in Range(report.errors)
            /\ RangeGiven(config) =>
                  /\ MinNotLess \in Range(report.errors)
                        <=> ~ (config["minTemperature"].n < config["maxTemperature"].n)
                  /\ (config["minTemperature"].n < 0 \/ config["maxTemperature"].n > 50)
                        => UnusualRange \in Range(report.warnings)
            /\ UnusualRange \notin Range(report.errors)
            /\ last.arg.after = config

----------------------------------------------------------------------------
(* File I/O and the event loop *)

\* the operations that read or write a file, by the call that does it:
\* parser.parse_file, IRCodeManager.async_load_device and async_save_device,
\* the JSON branch of async_import_codes, _save_config_file
FileOps == {"parse_file", "load", "save", "import_read", "export_write"}

\* what "import aiofiles" binds: the aiofiles package, whose read and write
\* run in a thread pool, or the module aiofiles/__init__.py of the
\* repository, whose read and write call the file object directly
AiofilesModules == {"package", "shim"}

\* the read or write of the operation runs in the thread of the event loop.
\* parse_file is a plain def that iterates the file it opened (parser.py
\* 163-164) and is called without an executor (device_manager.py 113, 364);
\* the import reads with open and json.load (device_manager.py 374-375); the
\* export writes with open and json.dump (smartir_generator.py 290-291);
\* load and save await aiofiles (ir_codes.py 284-285, 310-312).
blocking(op, aiofiles) ==
    CASE op = "parse_file" -> TRUE
      [] op = "import_read" -> TRUE
      [] op = "export_write" -> TRUE
      [] op \in {"load", "save"} -> aiofiles = "shim"

\* the thread of the event loop is inside a file call of some operation
loop_held == \E d \in Devices : loop.tasks[d].at = "blocking"

\* the most steps of other tasks followed
MaxOtherSteps == 2

\* the operation of device_id reaches its file read or write: a blocking
\* call keeps the thread of the loop, an awaited one suspends the coroutine
BeginFileIo(device_id, op) ==
    /\ ~ loop_held
    /\ loop.tasks[device_id].at = "idle"
    /\ loop' = [loop EXCEPT !.tasks[device_id] =
                    [op |-> op,
                     at |-> IF blocking(op, loop.aiofiles) THEN "blocking"
                            ELSE "suspended"]]
    /\ last' = Call("file_io", device_id, "", "", [t |-> "io", op |-> op], NoneV)
    /\ UNCHANGED <<code_sets, storage, clock>>
    /\ UNCHANGED dm_vars
    /\ UNCHANGED gen_vars
    /\ UNCHANGED obj_vars
    /\ UNCHANGED disc_vars

\* the read or write is done: a blocking call returns; an awaited one
\* resumes its coroutine when the loop is free
EndFileIo(device_id) ==
    /\ \/ loop.tasks[device_id].at = "blocking"
       \/ loop.tasks[device_id].at = "suspended" /\ ~ loop_held
    /\ loop' = [loop EXCEPT !.tasks[device_id] = [op |-> "none", at |-> "idle"]]
    /\ last' = Call("file_io_done", device_id, "", "",
                    [t |-> "io", op |-> loop.tasks[device_id].op], NoneV)
    /\ UNCHANGED <<code_sets, storage, clock>>
    /\ UNCHANGED dm_vars
    /\ UNCHANGED gen_vars
    /\ UNCHANGED obj_vars
    /\ UNCHANGED disc_vars

\* the loop runs a step of another task (an MQTT callback, a timeout)
RunOtherTask ==
    /\ ~ loop_held
    /\ loop.others < MaxOtherSteps
    /\ loop' = [loop EXCEPT !.others = @ + 1]
    /\ last' = Call("other_task", "", "", "", NoneV, NoneV)
    /\ UNCHANGED <<code_sets, storage, clock>>
    /\ UNCHANGED dm_vars
    /\ UNCHANGED gen_vars
    /\ UNCHANGED obj_vars
    /\ UNCHANGED disc_vars

InitIo ==
    /\ code_sets = EmptyDict
    /\ storage = [d \in Devices |-> Absent]
    /\ clock = 0
    /\ NoLearning
    /\ last = NoCall
    /\ NoGenerator
    /\ NoObjects
    /\ NoDiscovery
    /\ \E aiofiles \in AiofilesModules :
          loop = [ aiofiles |-> aiofiles,
                   tasks |-> [d \in Devices |-> [op |-> "none", at |-> "idle"]],
                   others |-> 0 ]

NextIo ==
    \/ \E d \in Devices : \E op \in FileOps : BeginFileIo(d, op)
    \/ \E d \in Devices : EndFileIo(d)
    \/ RunOtherTask

SpecIo == InitIo /\ [][NextIo]_vars

\* C27: file I/O never blocks the event loop: whenever parsing a Point-codes
\* file, loading or saving a code set, reading an import file or writing an
\* exported document is at its file read or write, the coroutine is
\* suspended and the loop is free to run other tasks.
C27_FileIoAwaited ==
    \A d \in Devices :
        loop.tasks[d].op \in FileOps =>
            /\ loop.tasks[d].at = "suspended"
            /\ ~ loop_held

----------------------------------------------------------------------------
(* Parsing a text and parsing a file, stated over SpecParse *)

\* C28: for every text, parse_file on a file holding the text and
\* parse_content on the text return code sets with the same categories and
\* keys, each pair holding a command of the same name and code; and
\* parse_content has touched no file.
C28_SameAsFile ==
    /\ last.op = "parse_file" =>
          LET from_file == last.ret
              from_content == last.arg.from_content
          IN  /\ from_file # NoneV
              /\ from_content # NoneV
              /\ PairsOf(from_file) = PairsOf(from_content)
              /\ \A pair \in PairsOf(from_file) \cap PairsOf(from_content) :
                    /\ from_file[pair[1]].d[pair[2]].name =
                          from_content[pair[1]].d[pair[2]].name
                    /\ from_file[pair[1]].d[pair[2]].code =
                          from_content[pair[1]].d[pair[2]].code
    /\ last.op = "parse_content(text)" =>
          /\ storage = [d \in Devices |-> Absent]
          /\ export_files = EmptyDict

----------------------------------------------------------------------------
(* Properties of the two timestamps of a code set, stated over SpecCodeSet *)

\* the calls of IRCodeSet that only read
ReadCalls ==
    {"get_command", "get_command_count", "validate_commands", "get_device_summary"}

\* C30: created_at never changes under add_command, remove_command or a
\* to_dict / from_dict reload; updated_at is set to the time of the call by
\* an add_command or remove_command that returns true, and is left as it was
\* by one that returns false, by a reload and by every read.
C30_Timestamps ==
    [][ \A d \in DOMAIN code_sets \cap DOMAIN code_sets' :
          LET before == code_sets[d]
              after == code_sets'[d]
              mutation == IsCall("add_command") \/ IsCall("remove_command")
          IN  /\ mutation \/ IsCall("round_trip") =>
                    attr(after, "created_at") = attr(before, "created_at")
              /\ mutation /\ last'.dev = d /\ last'.ret = TRUE =>
                    attr(after, "updated_at") = Ok(TimeV(clock))
              /\ (mutation /\ last'.ret = FALSE) \/ IsCall("round_trip")
                 \/ (clock' = clock /\ last'.op \in ReadCalls) =>
                    attr(after, "updated_at") = attr(before, "updated_at")
      ]_vars

----------------------------------------------------------------------------
(* SpecIsolation: two devices, their code sets and their command objects *)

\* how a device is set up (const.py CODE_SOURCE_*), and a source that is none
\* of them
CodeSources == {"pointcodes", "learn", "import", "cloud"}

\* variant of async_setup_device without the test of lines 62-65: a device
\* that has a code set is set up again
setup_device_again(cache, store, device_id, code_source, pointcodes, io, now) ==
    CHOOSE out \in
        { CHOOSE done \in
              { IF code_set = NoneV
                    THEN [ ret |-> FALSE, code_sets |-> loaded.code_sets, storage |-> store,
                           parsed |-> code_source = "pointcodes" /\ pointcodes # Absent ]
                ELSE CHOOSE saved \in
                    { [ ret |-> TRUE,
                        code_sets |-> registered,
                        storage |-> async_save_device(registered, store, device_id,
                                                      io).storage,
                        parsed |-> code_source = "pointcodes" ] :
                      registered \in
                          {add_device_codes(loaded.code_sets, code_set).code_sets} } : TRUE :
                code_set \in
                    { IF code_source = "pointcodes"
                          THEN (IF parse_file(pointcodes, device_id, now) = NoneV THEN NoneV
                                ELSE setattr(parse_file(pointcodes, device_id, now),
                                             "device_type", StrV("air_conditioner")))
                      ELSE IF code_source \in {"learn", "import"}
                          THEN NewCodeSet(device_id, now)
                      ELSE NoneV } } : TRUE :
          loaded \in {async_load_device(cache, store, device_id, now)} } : TRUE

\* variant of async_setup_device that registers the new code set for every
\* device of the installation
setup_device_for_all(cache, store, device_id, code_source, pointcodes, io, now) ==
    CHOOSE out \in
        { IF loaded.ret # NoneV
              THEN [ ret |-> TRUE, code_sets |-> loaded.code_sets, storage |-> store,
                     parsed |-> FALSE ]
          ELSE CHOOSE done \in
              { IF code_set = NoneV
                    THEN [ ret |-> FALSE, code_sets |-> loaded.code_sets, storage |-> store,
                           parsed |-> code_source = "pointcodes" /\ pointcodes # Absent ]
                ELSE [ ret |-> TRUE,
                       code_sets |-> [e \in Devices |-> code_set],
                       storage |-> async_save_device([e \in Devices |-> code_set], store,
                                                     device_id, io).storage,
                        parsed |-> code_source = "pointcodes" ] :
                code_set \in
                    { IF code_source = "pointcodes"
                          THEN (IF parse_file(pointcodes, device_id, now) = NoneV THEN NoneV
                                ELSE setattr(parse_file(pointcodes, device_id, now),
                                             "device_type", StrV("air_conditioner")))
                      ELSE IF code_source \in {"learn", "import"}
                          THEN NewCodeSet(device_id, now)
                      ELSE NoneV } } : TRUE :
          loaded \in {async_load_device(cache, store, device_id, now)} } : TRUE

\* async_setup_device(device_id, device_name, device_type, code_source):
\* [ret, code_sets, storage, parsed], parsed telling whether parse_file was
\* called. A device that already has a code set is left
\* as it is; else the code set comes from the Point-codes file or is empty,
\* is registered and is saved.
setup_device(cache, store, device_id, code_source, pointcodes, io, now) ==
    CHOOSE out \in
        { IF loaded.ret # NoneV
              THEN [ ret |-> TRUE, code_sets |-> loaded.code_sets, storage |-> store,
                     parsed |-> FALSE ]
          ELSE CHOOSE done \in
              { IF code_set = NoneV
                    THEN [ ret |-> FALSE, code_sets |-> loaded.code_sets, storage |-> store,
                           parsed |-> code_source = "pointcodes" /\ pointcodes # Absent ]
                ELSE CHOOSE saved \in
                    { [ ret |-> TRUE,
                        code_sets |-> registered,
                        storage |-> async_save_device(registered, store, device_id,
                                                      io).storage,
                        parsed |-> code_source = "pointcodes" ] :
                      registered \in
                          {add_device_codes(loaded.code_sets, code_set).code_sets} } : TRUE :
                code_set \in
                    { IF code_source = "pointcodes"
                          THEN (IF parse_file(pointcodes, device_id, now) = NoneV THEN NoneV
                                ELSE setattr(parse_file(pointcodes, device_id, now),
                                             "device_type", StrV("air_conditioner")))
                      ELSE IF code_source \in {"learn", "import"}
                          THEN NewCodeSet(device_id, now)
                      ELSE NoneV } } : TRUE :
          loaded \in {async_load_device(cache, store, device_id, now)} } : TRUE

\* the most calls that construct commands
MaxConstructions == 3

\* the objects held after the n-th constructing call, addressed to device_id,
\* took the cache from before to after. The call constructed the commands at
\* the (category, key) pairs of stored and those of a code set it loaded
\* (IRCommand.from_dict) or parsed; the other pairs of device_id hold what
\* they held; a code set of another device that the call replaced holds the
\* objects of the call.
objects_after(objs, device_id, before, after, stored) ==
    [ next |-> objs.next + 1,
      held |->
          [ e \in Devices |->
              IF e \notin DOMAIN after THEN [k \in {} |-> 0]
              ELSE IF e # device_id /\ DictGet(before, e, NoneV) = after[e]
                  THEN objs.held[e]
              ELSE [ slot \in PairsOf(after[e]) |->
                       IF e = device_id /\ slot \notin stored
                          /\ slot \in DOMAIN objs.held[e]
                           THEN objs.held[e][slot]
                           ELSE <<objs.next, slot>> ] ] ]

\* the (category, key) pairs the loop of the JSON import stored a command at
stored_by_import(cache, store, device_id, file, now) ==
    IF file = Absent \/ file.t # "import" THEN {}
    ELSE LET loaded == async_load_device(cache, store, device_id, now)
             start == [ cs |-> IF loaded.ret # NoneV THEN loaded.ret
                               ELSE IRCodeSet(StrV(device_id),
                                              StrV("Imported_" \o device_id),
                                              StrV("air_conditioner"),
                                              StrV("MOES"), StrV("UFO-R11"), NoneV, now),
                        imported_count |-> 0, raised |-> FALSE ]
             upto(i) == ImportFrom(SubSeq(file.entries, 1, i), 1, start, now)
         IN  { <<file.entries[i].category, file.entries[i].key>> :
                 i \in {i \in 1..Len(file.entries) :
                           upto(i).imported_count > upto(i - 1).imported_count} }

\* device_manager.async_setup_device(device_id, name, type, code_source)
SetupDevice(device_id, code_source, pointcodes, io) ==
    /\ objects.next <= MaxConstructions
    /\ \E r \in {setup_device(code_sets, storage, device_id, code_source, pointcodes,
                              io, clock)} :
           /\ code_sets' = r.code_sets
           /\ storage' = r.storage
           /\ objects' = objects_after(objects, device_id, code_sets, r.code_sets, {})
           /\ last' = Call("async_setup_device", device_id, "", "",
                           [t |-> "setup", code_source |-> code_source,
                            pointcodes |-> pointcodes, io |-> io, parsed |-> r.parsed,
                            created |-> r.ret /\ async_load_device(code_sets, storage,
                                                                   device_id, clock).ret
                                                     = NoneV],
                           r.ret)
    /\ UNCHANGED clock
    /\ UNCHANGED dm_vars
    /\ UNCHANGED gen_vars
    /\ UNCHANGED io_vars
    /\ UNCHANGED disc_vars

\* device_manager.async_import_codes(device_id, file_path, "json"), with the
\* objects its IRCommand constructions leave in the code set
ImportCommands(device_id, file, io) ==
    /\ objects.next <= MaxConstructions
    /\ \E r \in {import_codes(code_sets, storage, device_id, file, io, clock)} :
           /\ code_sets' = r.code_sets
           /\ storage' = r.storage
           /\ objects' = objects_after(objects, device_id, code_sets, r.code_sets,
                                       stored_by_import(code_sets, storage, device_id,
                                                        file, clock))
           /\ last' = Call("async_import_codes", device_id, "", "",
                           [ t |-> "import", file |-> file, io |-> io,
                             imported_count |-> r.imported_count,
                             before |-> async_load_device(code_sets, storage, device_id,
                                                          clock).ret ],
                           r.ret)
    /\ UNCHANGED clock
    /\ UNCHANGED dm_vars
    /\ UNCHANGED gen_vars
    /\ UNCHANGED io_vars
    /\ UNCHANGED disc_vars

\* device_manager.async_handle_learned_code(device_id, learned_code), with
\* the object of the IRCommand it constructs
StoreLearnedCode(device_id, learned_code, io) ==
    /\ objects.next <= MaxConstructions
    /\ device_id \in DOMAIN learning_sessions
    /\ \E r \in {handle_learned_code(learning_sessions, code_sets, storage, device_id,
                                     learned_code, io, clock)} :
           /\ learning_sessions' = r.sessions
           /\ code_sets' = r.code_sets
           /\ storage' = r.storage
           /\ learned_sessions' = learned_sessions \cup {r.popped}
           /\ objects' = objects_after(
                             objects, device_id, code_sets, r.code_sets,
                             IF r.ret THEN {<<learning_sessions[device_id].category,
                                              learning_sessions[device_id].key>>}
                             ELSE {})
           /\ last' = Call("async_handle_learned_code", device_id, "", "",
                           [t |-> "code", code |-> learned_code, io |-> io,
                            sid |-> r.popped],
                           r.ret)
    /\ UNCHANGED <<clock, learn_calls, timeout_tasks, session_count, mqtt_published,
                   notifications>>
    /\ UNCHANGED gen_vars
    /\ UNCHANGED io_vars
    /\ UNCHANGED disc_vars

\* code_set.add_command(category, key, IRCommand(...)) on the cached code set
\* of device_id, the command being constructed for the call
AddNewCommand(device_id, category, key, code) ==
    /\ objects.next <= MaxConstructions
    /\ device_id \in DOMAIN code_sets
    /\ \E r \in {add_command(code_sets[device_id], category, key,
                             NewCommand("ON", code, "line", clock), clock)} :
           /\ code_sets' = [code_sets EXCEPT ![device_id] = r.cs]
           /\ objects' = objects_after(objects, device_id, code_sets,
                                       [code_sets EXCEPT ![device_id] = r.cs],
                                       IF r.ret THEN {<<category, key>>} ELSE {})
           /\ last' = Call("add_command", device_id, category, key, NoneV, r.ret)
    /\ UNCHANGED <<storage, clock>>
    /\ UNCHANGED dm_vars
    /\ UNCHANGED gen_vars
    /\ UNCHANGED io_vars
    /\ UNCHANGED disc_vars

\* code_set.remove_command(category, key) on the cached code set of
\* device_id: the object is no longer held
DropCommand(device_id, category, key) ==
    /\ device_id \in DOMAIN code_sets
    /\ \E r \in {remove_command(code_sets[device_id], category, key, clock)} :
           /\ code_sets' = [code_sets EXCEPT ![device_id] = r.cs]
           /\ objects' =
                 [objects EXCEPT !.held[device_id] =
                     [slot \in DOMAIN @ \cap PairsOf(r.cs) |-> @[slot]]]
           /\ last' = Call("remove_command", device_id, category, key, NoneV, r.ret)
    /\ UNCHANGED <<storage, clock>>
    /\ UNCHANGED dm_vars
    /\ UNCHANGED gen_vars
    /\ UNCHANGED io_vars
    /\ UNCHANGED disc_vars

\* the Point-codes file of the integration and the import files
IsolationPointCodes ==
    PointCodesFile(<<"O", "N", " ", "-", " ", "Q", "U", "J", "D", "\n",
                     "O", "F", "F", " ", "-", " ", "R", "E", "V", "G", "\n">>)

IsolationImports ==
    { ImportFile(<<Entry("power", "on", SimpleEntry(CodeABC))>>),
      ImportFile(<<Entry("power", "on", SimpleEntry(CodeDEF)),
                   Entry("bogus", "on", SimpleEntry(CodeABC))>>) }

\* a DeviceManager before any device is set up; dev2 was persisted by an
\* earlier run
InitIsolation ==
    /\ code_sets = EmptyDict
    /\ storage = ("dev1" :> Absent) @@ ("dev2" :> JsonFile(StoredDoc("dev2")))
    /\ clock = 0
    /\ NoLearning
    /\ last = NoCall
    /\ NoGenerator
    /\ NoFileIo
    /\ NoObjects
    /\ NoDiscovery

NextIsolation ==
    \/ \E d \in Devices : \E code_source \in {"pointcodes", "learn"} :
          SetupDevice(d, code_source, IsolationPointCodes, "ok")
    \/ \E d \in Devices : \E file \in IsolationImports : ImportCommands(d, file, "ok")
    \/ \E d \in Devices : LearnIrCommand(d, "Power on", "power", "on")
    \/ \E call \in learn_calls : LearnPublished(call)
    \/ \E d \in Devices : StoreLearnedCode(d, CodeABC, "ok")
    \/ \E d \in Devices : AddNewCommand(d, "power", "on", CodeABC)
    \/ \E d \in Devices : DropCommand(d, "power", "on")
    \/ \E d \in Devices : SaveDevice(d, "ok")

SpecIsolation == InitIsolation /\ [][NextIsolation]_vars

----------------------------------------------------------------------------
(* Properties of the isolation of devices, stated over SpecIsolation *)

\* the objects held by the cached code set of a device
HeldBy(device_id) == Range(objects.held[device_id])

----------------------------------------------------------------------------
(* UFODeviceDiscovery: the tasks that take _discovery_lock (discovery.py) *)

\* a device as Zigbee2MQTT reports it
DeviceInfo(model, vendor, friendly_name, ieee_address) ==
    [model |-> model, vendor |-> vendor, friendly_name |-> friendly_name,
     ieee_address |-> ieee_address]

\* the friendly names that hold one of UFO_R11_PATTERNS
UfoNames == {"UFO-R11 living room"}

\* _is_ufo_r11_device(device_info), for a device without status and with
\* an address that is not a Zigbee IEEE address
is_ufo_r11_device(device_info) ==
    \/ device_info.model = "UFO-R11"
    \/ device_info.vendor = "MOES"
    \/ device_info.friendly_name \in UfoNames

\* _extract_device_id(device_info): the address, else the name, else None
extract_device_id(device_info) ==
    IF device_info.ieee_address # "" THEN StrV(device_info.ieee_address)
    ELSE IF device_info.friendly_name # "" THEN StrV(device_info.friendly_name)
    ELSE NoneV

\* the device ids of the config entries of the domain
ConfiguredIds == {"0x02"}

\* _is_device_already_configured(device_id)
is_device_already_configured(device_id) == device_id \in ConfiguredIds

\* asyncio.Lock: acquire returns only when no task holds the lock, the
\* holder itself included
lock_free(disc) == disc.lock = 0

\* a task of the discovery is created for a message
create_task(disc, t, kind, devices) ==
    [disc EXCEPT !.tasks[t] = [kind |-> kind, at |-> "acquire", devices |-> devices,
                               i |-> 1]]

\* `async with self._discovery_lock:` entered by task t, at the head of
\* _process_device_list, _process_single_device or
\* _process_discovered_network_device
acquire_discovery_lock(disc, t) ==
    [disc EXCEPT !.lock = t,
                 !.tasks[t].at = IF disc.tasks[t].at = "acquire"
                                    /\ disc.tasks[t].kind = "list"
                                     THEN "in_list" ELSE "in_device"]

\* one turn of the loop of _process_device_list under the lock: a UFO-R11
\* device is handed to _process_single_device, which takes the lock itself;
\* after the last device the lock is released
process_device_list(disc, t) ==
    LET task == disc.tasks[t]
    IN  IF task.i > Len(task.devices)
            THEN [disc EXCEPT !.lock = 0, !.tasks[t].at = "done"]
        ELSE IF is_ufo_r11_device(task.devices[task.i])
            THEN [disc EXCEPT !.tasks[t].at = "acquire_single"]
        ELSE [disc EXCEPT !.tasks[t].i = task.i + 1]

\* the device ids in _discovered_devices after the body of
\* _process_single_device for device_info
discovered_after(discovered, device_info) ==
    IF ~ is_ufo_r11_device(device_info) THEN discovered
    ELSE IF extract_device_id(device_info) = NoneV THEN discovered
    ELSE IF is_device_already_configured(extract_device_id(device_info).s) THEN discovered
    ELSE discovered \cup {extract_device_id(device_info).s}

\* the body of _process_single_device under the lock, then the release of
\* the lock; a call made by _process_device_list returns into its loop
process_single_device(disc, t) ==
    LET task == disc.tasks[t]
    IN  [disc EXCEPT !.lock = 0,
                     !.discovered = discovered_after(@, task.devices[task.i]),
                     !.tasks[t].at = IF task.kind = "list" THEN "in_list" ELSE "done",
                     !.tasks[t].i = IF task.kind = "list" THEN task.i + 1 ELSE task.i]

\* the body of _process_discovered_network_device under the lock, then the
\* release of the lock
process_discovered_network_device(disc, t) ==
    LET device_id == disc.tasks[t].devices[1].ieee_address
    IN  [disc EXCEPT !.lock = 0,
                     !.discovered = IF is_device_already_configured(device_id) THEN @
                                    ELSE @ \cup {device_id},
                     !.tasks[t].at = "done"]

\* what no action of the discovery changes
DiscoveryFrame ==
    /\ UNCHANGED <<code_sets, storage, clock>>
    /\ UNCHANGED dm_vars
    /\ UNCHANGED gen_vars
    /\ UNCHANGED io_vars
    /\ UNCHANGED obj_vars

\* _handle_bridge_devices_message with a list payload:
\* hass.async_create_task(self._process_device_list(payload))
BridgeDevicesMessage(t, devices) ==
    /\ discovery.tasks[t].kind = "none"
    /\ discovery' = create_task(discovery, t, "list", devices)
    /\ last' = Call("_handle_bridge_devices_message", "", "", "", NoneV, NoneV)
    /\ DiscoveryFrame

\* _handle_bridge_devices_message with a device_announced payload, or
\* _handle_device_status: hass.async_create_task(self._process_single_device(info))
DeviceAnnounced(t, device_info) ==
    /\ discovery.tasks[t].kind = "none"
    /\ discovery' = create_task(discovery, t, "single", <<device_info>>)
    /\ last' = Call("_handle_device_status", "", "", "", NoneV, NoneV)
    /\ DiscoveryFrame

\* _async_process_zeroconf_service or _handle_ssdp_discovery reaching
\* _process_discovered_network_device(discovery_data)
NetworkDeviceFound(t, device_info) ==
    /\ discovery.tasks[t].kind = "none"
    /\ discovery' = create_task(discovery, t, "network", <<device_info>>)
    /\ last' = Call("_handle_ssdp_discovery", "", "", "", NoneV, NoneV)
    /\ DiscoveryFrame

\* task t enters `async with self._discovery_lock:`
AcquireDiscoveryLock(t) ==
    /\ discovery.tasks[t].at \in {"acquire", "acquire_single"}
    /\ lock_free(discovery)
    /\ discovery' = acquire_discovery_lock(discovery, t)
    /\ last' = Call("_discovery_lock.acquire", "", "", "", NoneV, NoneV)
    /\ DiscoveryFrame

\* _process_device_list(devices), one turn of its loop
ProcessDeviceList(t) ==
    /\ discovery.tasks[t].at = "in_list"
    /\ discovery' = process_device_list(discovery, t)
    /\ last' = Call("_process_device_list", "", "", "", NoneV, NoneV)
    /\ DiscoveryFrame

\* _process_single_device(device_info), from the lock to the return
ProcessSingleDevice(t) ==
    /\ discovery.tasks[t].at = "in_device"
    /\ discovery.tasks[t].kind \in {"list", "single"}
    /\ discovery' = process_single_device(discovery, t)
    /\ last' = Call("_process_single_device", "", "", "", NoneV, NoneV)
    /\ DiscoveryFrame

\* _process_discovered_network_device(discovery_data), from the lock to the
\* return
ProcessDiscoveredNetworkDevice(t) ==
    /\ discovery.tasks[t].at = "in_device"
    /\ discovery.tasks[t].kind = "network"
    /\ discovery' = process_discovered_network_device(discovery, t)
    /\ last' = Call("_process_discovered_network_device", "", "", "", NoneV, NoneV)
    /\ DiscoveryFrame

\* the devices Zigbee2MQTT reports
Lamp == DeviceInfo("TS0505B", "Lidl", "lamp", "0x03")
Blaster == DeviceInfo("UFO-R11", "MOES", "ir blaster", "0x01")
Configured == DeviceInfo("UFO-R11", "MOES", "bedroom", "0x02")

DeviceLists == {<<>>, <<Lamp>>, <<Blaster>>, <<Lamp, Blaster>>}

\* a discovery service just started
InitDiscovery ==
    /\ code_sets = EmptyDict
    /\ storage = [d \in Devices |-> Absent]
    /\ clock = 0
    /\ NoLearning
    /\ last = NoCall
    /\ NoGenerator
    /\ NoFileIo
    /\ NoObjects
    /\ NoDiscovery

NextDiscovery ==
    \/ \E t \in DiscoveryTasks : \E devices \in DeviceLists : BridgeDevicesMessage(t, devices)
    \/ \E t \in DiscoveryTasks : \E info \in {Lamp, Blaster, Configured} :
          DeviceAnnounced(t, info)
    \/ \E t \in DiscoveryTasks : \E info \in {Blaster, Configured} :
          NetworkDeviceFound(t, info)
    \/ \E t \in DiscoveryTasks : AcquireDiscoveryLock(t)
    \/ \E t \in DiscoveryTasks : ProcessDeviceList(t)
    \/ \E t \in DiscoveryTasks : ProcessSingleDevice(t)
    \/ \E t \in DiscoveryTasks : ProcessDiscoveredNetworkDevice(t)

\* The event loop runs every task that is ready, and asyncio.Lock wakes its
\* waiters in turn: a task that can take the lock again and again takes it.
SpecDiscovery ==
    /\ InitDiscovery
    /\ [][NextDiscovery]_vars
    /\ \A t \in DiscoveryTasks :
          /\ SF_vars(AcquireDiscoveryLock(t))
          /\ WF_vars(ProcessDeviceList(t))
          /\ WF_vars(ProcessSingleDevice(t))
          /\ WF_vars(ProcessDiscoveredNetworkDevice(t))

----------------------------------------------------------------------------
(* Properties of the discovery, stated over SpecDiscovery *)

\* C31: every discovery task, the one processing a device list included,
\* comes to its end, and the lock a task holds is released: every event
\* that waits for the lock is processed.
C31_DiscoveryProceeds ==
    \A t \in DiscoveryTasks :
        /\ (discovery.tasks[t].at = "acquire") ~> (discovery.tasks[t].at = "done")
        /\ (discovery.lock = t) ~> (discovery.lock # t)

----------------------------------------------------------------------------
(* Properties of the learned codes, stated over SpecLearn *)

\* the command cs holds at each (category, key) of its six categories
CommandsAt(cs) ==
    [slot \in SixCategories \X Range(KeyOrder) |-> get_command(cs, slot[1], slot[2])]

\* the code set of device_id as async_handle_learned_code finds it
FoundCodeSet(device_id) ==
    async_load_device(code_sets, storage, device_id, clock).ret

\* C32: a learned code for a device without an active session is rejected
\* and changes no code set and no persisted document; with a session, the
\* code sets of the other devices are unchanged, a call that returns true
\* has put the learned command at the session's (category, key) and left
\* every other (category, key) of the device as it was, a call that returns
\* false has changed no command, and the session has stored no code before.
C32_LearnedThroughSession ==
    [][ IsCall("async_handle_learned_code") =>
          LET d == last'.dev
          IN  /\ d \notin DOMAIN learning_sessions =>
                    /\ last'.ret = FALSE
                    /\ code_sets' = code_sets
                    /\ storage' = storage
              /\ d \in DOMAIN learning_sessions =>
                    LET session == learning_sessions[d]
                        target == <<session.category, session.key>>
                    IN  /\ session.sid \notin learned_sessions
                        /\ d \notin DOMAIN learning_sessions'
                        /\ \A e \in Devices \ {d} :
                              /\ DictGet(code_sets', e, NoneV) = DictGet(code_sets, e, NoneV)
                              /\ storage'[e] = storage[e]
                        /\ last'.ret = TRUE =>
                              /\ get_command(code_sets'[d], target[1], target[2]) # NoneV
                              /\ get_command(code_sets'[d], target[1], target[2]).c.code
                                    = last'.arg.code
                              /\ \A slot \in (SixCategories \X Range(KeyOrder)) \ {target} :
                                    CommandsAt(code_sets'[d])[slot]
                                        = CommandsAt(FoundCodeSet(d))[slot]
                        /\ (last'.ret = FALSE /\ FoundCodeSet(d) # NoneV) =>
                              CommandsAt(code_sets'[d]) = CommandsAt(FoundCodeSet(d))
        ]_vars

----------------------------------------------------------------------------
(* Properties of the exported documents, stated over SpecExport *)

ExportCalled == last.op = "async_export_device_smartir"

\* C33: every document the generation returns is accepted by the validator:
\* its commands.temperature is not empty and its minTemperature is less
\* than its maxTemperature, so the export of a device for which a document
\* was generated returns true.
C33_GeneratedIsValid ==
    /\ (GenerateCalled /\ last.ret # NoneV) =>
          /\ validate_smartir_config(config_dict(last.ret.config)) # Raised
          /\ validate_smartir_config(config_dict(last.ret.config)).valid
          /\ DOMAIN last.ret.config.commands.temperature # {}
          /\ last.ret.config.minTemperature < last.ret.config.maxTemperature
    /\ (ExportCalled /\ last.arg.config # NoneV) => last.ret = TRUE

----------------------------------------------------------------------------
(* SpecRegenerate: a DeviceManager changing code sets beside a generator *)

\* the persisted code sets: valid power commands, mode cool, 20 and 24 degrees
RegenerateDoc(device_id) ==
    JsonFile(GenDoc(device_id, <<V, V, V, A, A, V, V, A>> \o NoFanSwing))

\* the files imported: another code for power on, another for 20 degrees
RegenerateImports ==
    { ImportFile(<<Entry("power", "on", SimpleEntry(CodeDEF))>>),
      ImportFile(<<Entry("temperature", "20", SimpleEntry(CodeABC))>>) }

\* a DeviceManager and a SmartIRGenerator just constructed, each with an
\* IRCodeManager of its own over the same storage directory
InitRegenerate ==
    /\ code_sets = EmptyDict
    /\ storage = [d \in Devices |-> RegenerateDoc(d)]
    /\ clock = 0
    /\ NoLearning
    /\ last = NoCall
    /\ NoGenerator
    /\ NoFileIo
    /\ NoObjects
    /\ NoDiscovery

NextRegenerate ==
    \/ \E d \in Devices : GenerateSmartirConfig(d, NoneV, "ok")
    \/ \E file \in RegenerateImports : ImportCodes("dev1", file, "ok")
    \/ LearnIrCommand("dev1", "Power off", "power", "off")
    \/ \E call \in learn_calls : LearnPublished(call)
    \/ HandleLearnedCode("dev1", CodeABC, "ok")

SpecRegenerate == InitRegenerate /\ [][NextRegenerate]_vars

----------------------------------------------------------------------------
(* Properties of regeneration, stated over SpecRegenerate *)

\* the document generated from the persisted code set of device_id
DocumentOfSaved(device_id) ==
    LET saved == async_load_device(EmptyDict, storage, device_id, clock).ret
    IN  IF saved = NoneV THEN NoneV ELSE smartir_config(saved, device_id, clock)

\* C34: a generation returns the document of the code set last saved for
\* the device: after a learned code or an import was stored and saved, the
\* commands of every later document are those of the saved code set, also
\* when the generator generated a document for the device before.
C34_GeneratedFromSaved ==
    GenerateCalled =>
        /\ (last.ret = NoneV) = (DocumentOfSaved(last.dev) = NoneV)
        /\ last.ret # NoneV =>
              last.ret.config.commands = DocumentOfSaved(last.dev).config.commands

----------------------------------------------------------------------------
(* Properties of failed imports, stated over SpecDevice *)

\* the code set a load of device_id returns from cache and store
LoadedFrom(cache, store, device_id) ==
    async_load_device(cache, store, device_id, clock).ret

\* C35: an import that returns false leaves the persisted document of the
\* device and the code set the manager returns for it as they were before
\* the call.
C35_FailedImportChangesNothing ==
    [][ (IsCall("async_import_codes") /\ last'.ret = FALSE) =>
          /\ storage'[last'.dev] = storage[last'.dev]
          /\ LoadedFrom(code_sets', storage', last'.dev)
                = LoadedFrom(code_sets, storage, last'.dev) ]_vars

----------------------------------------------------------------------------
(* SpecPersist: a DeviceManager over a storage whose writes can fail *)

\* how the file system answers the save inside a DeviceManager call
PersistIo == {"ok", "open_fails", "write_fails_empty"}

\* the file imported
PersistImport == ImportFile(<<Entry("power", "on", SimpleEntry(CodeDEF))>>)

\* a DeviceManager before any device is set up; dev2 was persisted by an
\* earlier run
InitPersist ==
    /\ code_sets = EmptyDict
    /\ storage = ("dev1" :> Absent) @@ ("dev2" :> JsonFile(StoredDoc("dev2")))
    /\ clock = 0
    /\ NoLearning
    /\ last = NoCall
    /\ NoGenerator
    /\ NoFileIo
    /\ NoObjects
    /\ NoDiscovery

NextPersist ==
    \/ \E d \in Devices : \E code_source \in {"pointcodes", "learn", "cloud"} :
          \E pointcodes \in {IsolationPointCodes, Absent} : \E io \in PersistIo :
              SetupDevice(d, code_source, pointcodes, io)
    \/ \E d \in Devices : \E io \in PersistIo : ImportCommands(d, PersistImport, io)
    \/ LearnIrCommand("dev1", "Power off", "power", "off")
    \/ \E call \in learn_calls : LearnPublished(call)
    \/ \E io \in PersistIo : StoreLearnedCode("dev1", CodeABC, io)

SpecPersist == InitPersist /\ [][NextPersist]_vars

----------------------------------------------------------------------------
(* Properties of persistence, stated over SpecPersist *)

\* the file that holds the serialization of code set cs
SerializationOf(cs) ==
    IF IRCodeSet_to_dict(cs) = Raised THEN Raised
    ELSE json_dumps(IRCodeSet_to_dict(cs).v)

\* the last call was one that changes the code set of its device
ChangingCalled ==
    \/ last.op \in {"async_import_codes", "async_handle_learned_code"}
    \/ last.op = "async_setup_device" /\ last.arg.created

\* C36: when a DeviceManager call that changes the code set of a device has
\* returned true, the persisted document of the device is the serialization
\* of its cached code set, whatever the file system answered.
C36_CacheAndStoreAgree ==
    (ChangingCalled /\ last.ret = TRUE) =>
        /\ last.dev \in DOMAIN code_sets
        /\ Ok(storage[last.dev]) = SerializationOf(code_sets[last.dev])

\* C37: async_setup_device for a device that has a code set, cached or
\* persisted, returns true, does not call parse_file, and leaves the
\* persisted document and the code set of the device as they were; for a
\* device without a code set and a source that yields none (no Point-codes
\* file, a source that is not known) it returns false and changes neither
\* the cache nor the storage.
C37_SetupOfExisting ==
    [][ IsCall("async_setup_device") =>
          LET d == last'.dev
              before == LoadedFrom(code_sets, storage, d)
              yields_none ==
                  \/ last'.arg.code_source \notin {"pointcodes", "learn", "import"}
                  \/ (last'.arg.code_source = "pointcodes" /\ last'.arg.pointcodes = Absent)
          IN  /\ before # NoneV =>
                    /\ last'.ret = TRUE
                    /\ ~ last'.arg.parsed
                    /\ storage' = storage
                    /\ LoadedFrom(code_sets', storage', d) = before
                    /\ \A e \in Devices \ {d} :
                          DictGet(code_sets', e, NoneV) = DictGet(code_sets, e, NoneV)
              /\ (before = NoneV /\ yields_none) =>
                    /\ last'.ret = FALSE
                    /\ code_sets' = code_sets
                    /\ storage' = storage
        ]_vars

\* dev1 was set up from the Point-codes file, a code was imported for it
\* since, and a second setup has returned true leaving the imported code in
\* the cache and in the persisted document
C37_Witness ==
    /\ last.op = "async_setup_device"
    /\ last.dev = "dev1"
    /\ last.ret = TRUE
    /\ ~ last.arg.parsed
    /\ last.arg.code_source = "pointcodes"
    /\ "dev1" \in DOMAIN code_sets
    /\ Holds(code_sets["dev1"], "power", "on")
    /\ code_sets["dev1"]["power"].d["on"].code = CodeDEF
    /\ Holds(code_sets["dev1"], "power", "off")
    /\ storage["dev1"] # Absent
    /\ Ok(storage["dev1"]) = SerializationOf(code_sets["dev1"])

----------------------------------------------------------------------------
(* Properties of failed saves, stated over Spec *)

\* C38: a save that returns false leaves the persisted document of the
\* device as the last successful save wrote it: the file is unchanged, and
\* a manager with an empty cache loads from it what it loaded before.
C38_FailedSaveKeepsDocument ==
    [][ ( /\ IsCall("async_save_device")
          /\ last'.ret = FALSE
          /\ storage[last'.dev].t = "json" ) =>
          /\ storage'[last'.dev] = storage[last'.dev]
          /\ LoadedFrom(EmptyDict, storage', last'.dev)
                = LoadedFrom(EmptyDict, storage, last'.dev) ]_vars

====
